---------------------------- MODULE Spec2Model ----------------------------
(***************************************************************************)
(* Model of the software audio mixer of dasbox (src/src/sound.cpp): PCM    *)
(* assets and their sample buffers, the registry of buffers, the table of  *)
(* voice slots with versioned handles, the mix routine run by the audio    *)
(* callback, and the control surface.                                      *)
(*                                                                         *)
(* Numbers.  The source computes in float/double; the model computes in    *)
(* fixed point:                                                            *)
(*   gains (volumeL, volumeR, trends)  in units of 1/GainUnit              *)
(*   volume, pan, master_volume        in units of 1/ParamUnit             *)
(*   pitch                             in units of 1/PitchUnit             *)
(*   pos, startPos, stopPos, advance   in units of 1/PosUnit input frames  *)
(*   times (seconds)                   in ticks of 1/OUTPUT_SAMPLE_RATE s  *)
(* Sample values are small integers.  A read of memory the program does    *)
(* not own (freed buffer, null buffer, destroyed asset, frame outside the  *)
(* buffer) is undefined behaviour: the step traps, it records the access   *)
(* in `fault' and the model explores no further from there.                *)
(***************************************************************************)
EXTENDS Integers, Sequences, FiniteSets, TLC

\* ----------------------------------------------------------------- bounds
NumSlots == 3        \* size of the voice table in the model (source: 128)
NumAssets == 2       \* PcmSound objects the callers own
NumCallers == 2      \* caller threads
MaxBuffers == 3      \* sample buffers ever allocated
MaxSteps == 5        \* operations and callbacks in one behaviour
MaxFadeSteps == 4    \* the same, with callbacks of device size
MaxCalls == 6        \* calls and callbacks started when threads interleave
MaxPlaySteps == 3     \* operations and callbacks when play takes any argument
MaxChunkSteps == 161  \* one call of mixTo and the samples of its chunk
FadeCap == 2100      \* frames of stop-fade the history counts up to

\* ------------------------------------------------------ program constants
OUTPUT_SAMPLE_RATE == 48000
MAX_PLAYING_SOUNDS == NumSlots
STEP == 256
GainUnit == 512 * 625            \* 1.0f as a gain
ParamUnit == 2 * 2               \* 1.0f as a volume, pan or master volume
PitchUnit == 10 * 10000          \* 1.0f as a pitch
PosUnit == PitchUnit             \* one input frame
ONE_DIV_512 == GainUnit \div 512
StopTrend == GainUnit \div 10000 \* 1.f / 10000
DecayNum == 997                  \* 0.997f = DecayNum / DecayDen
DecayDen == 1000
PitchMin == PitchUnit \div 100000   \* 0.00001f
PitchMax == 1000 * PitchUnit        \* 1000.0f
VolumeMax == 100000 * ParamUnit     \* 100000.0f
VERY_BIG_NUMBER == 1000 * OUTPUT_SAMPLE_RATE  \* a time beyond every asset
DefaultFrequency == 44100
MinPlayableSamples == 3          \* play refuses samples <= 2

Null == 0
Assets == 1 .. NumAssets
Buffers == 1 .. MaxBuffers
Slots == 0 .. (MAX_PLAYING_SOUNDS - 1)

\* -------------------------------------------------------------- variables
VARIABLES
  assets,                 \* PcmSound objects: alive, data, frequency, samples, channels
  heap,                   \* sample buffers: state and floats
  sound_data_pointers,    \* the registry of buffers
  playing_sounds,         \* the voice table
  master_volume,
  device_initialized,
  device_running,         \* the playback device exists and calls the callback
  out_buf,                \* the device buffer as the callback of the last step left it
  total_samples_played,
  total_time_played,      \* in ticks of 1/OUTPUT_SAMPLE_RATE s
  sound_cs,               \* the mutex: owner thread and lock count
  sound_cs_manual_entered,
  pc,                     \* where each caller thread is, and in which call
  audio,                  \* where the audio thread is in its callback
  fault,                  \* the undefined access that ended the behaviour, if any
  \* history variables (not program state)
  handles,                \* handles[p]: what the p-th successful play returned
  slotPlay,               \* slotPlay[i]: the play whose voice slot i holds
  lastOp,                 \* the control operation on a handle that the last step was
  steps,                  \* operations and callbacks so far
  framesOut,              \* output frames the device has asked for since the start
  fade,                   \* per slot: why it is in stop-fade, frames since
  inBatch,                \* callers between enter_ and leave_sound_critical_section
  ramp,                   \* one channel gain of one voice in float arithmetic
  chunk                   \* one chunk of one voice with pos in double arithmetic

vars == << assets, heap, sound_data_pointers, playing_sounds, master_volume,
           device_initialized, device_running, out_buf,
           total_samples_played, total_time_played, sound_cs,
           sound_cs_manual_entered, pc, audio, fault,
           handles, slotPlay, lastOp, steps, framesOut, fade, inBatch, ramp, chunk >>

\* ---------------------------------------------------------------- helpers
Min(a, b) == IF a < b THEN a ELSE b
Max(a, b) == IF a > b THEN a ELSE b
Abs(x) == IF x < 0 THEN -x ELSE x
clamp(x, lo, hi) == Min(Max(x, lo), hi)
sign(x) == IF x < 0 THEN -1 ELSE IF x > 0 THEN 1 ELSE 0
\* C++ conversion double -> integer and integer division truncate toward 0
TruncDiv(a, b) == IF a >= 0 THEN a \div b ELSE -((-a) \div b)
\* floor()
FloorDiv(a, b) == a \div b
\* unsigned(pos): the frame index of a position.  The conversion truncates;
\* a position <= -1 has no unsigned value and the index is then negative
\* here, which every access treats as outside the buffer.
FrameIndex(p) == TruncDiv(p, PosUnit)

\* PlayingSound::PlayingSound, memset(this, 0, sizeof(*this))
EmptyVoice ==
  [ sound |-> Null, pos |-> 0, startPos |-> 0, stopPos |-> 0, pitch |-> 0,
    volume |-> 0, pan |-> 0, volumeL |-> 0, volumeR |-> 0,
    volumeTrendL |-> 0, volumeTrendR |-> 0, timeToStart |-> 0,
    channels |-> 0, version |-> 0, loop |-> FALSE, stopMode |-> FALSE,
    waitingStart |-> FALSE ]

\* PcmSound::PcmSound()
EmptySound ==
  [ alive |-> FALSE, data |-> Null, frequency |-> DefaultFrequency,
    samples |-> 0, channels |-> 1 ]

\* A sample buffer is "fresh" (never allocated), "live" or "freed".  Every
\* allocation gets a buffer of its own: the model does not hand the address
\* of a freed buffer out again.  `by' is history: the operation that freed it.
FreshBuffer == [ state |-> "fresh", mem |-> << >>, by |-> "" ]

\* PlayingSound::isEmpty
isEmpty(v) == v.sound = Null /\ ~v.stopMode /\ ~v.waitingStart

\* Sample rates of the model divide the output rate, so that
\* frequency / OUTPUT_SAMPLE_RATE = 1 / RateDiv(frequency) exactly.
RateDiv(frequency) == OUTPUT_SAMPLE_RATE \div frequency

\* -------------------------------------------------------------- handles
\* handle & PLAYING_SOUNDS_MASK and handle & ~PLAYING_SOUNDS_MASK
HandleIndex(h) == h % MAX_PLAYING_SOUNDS
HandleVersion(h) == h - (h % MAX_PLAYING_SOUNDS)
InvalidHandle == 0
\* res.handle = idx | s.version (the version is a multiple of the table size)
PackHandle(idx, version) == idx + version

\* the validity test that looks at the index only
is_handle_valid_IndexOnly(h) == HandleIndex(h) > 0

is_handle_valid(h) ==
  playing_sounds[HandleIndex(h)].version = HandleVersion(h) /\ HandleIndex(h) > 0

handle_to_index(h) == IF ~is_handle_valid(h) THEN -1 ELSE HandleIndex(h)

is_playing(h) ==
  ~(handle_to_index(h) < 0 \/ playing_sounds[HandleIndex(h)].stopMode)

get_sound_play_pos(h) ==
  IF handle_to_index(h) < 0 THEN 0
  ELSE LET v == playing_sounds[HandleIndex(h)] IN
       IF v.sound = Null \/ v.stopMode \/ v.waitingStart THEN 0
       ELSE v.pos * RateDiv(assets[v.sound].frequency)  \* in 1/PosUnit ticks

\* ------------------------------------------------------- memory accesses
\* The floats of a buffer that the model keeps: frames 0 .. samples, the
\* last one being the guard frame (the three frames after it are never
\* written by the program and are left out).
BufLen(b) == Len(heap[b].mem)

\* What an access through the asset pointer `a' to the floats lo .. hi of
\* its buffer does: "none" when the asset is alive, its buffer allocated and
\* the floats inside it.
AccessFault(a, lo, hi) ==
  IF ~assets[a].alive THEN "uaf"
  ELSE IF assets[a].data = Null THEN "null"
  ELSE IF heap[assets[a].data].state # "live" THEN "uaf"
  ELSE IF lo < 0 \/ hi >= BufLen(assets[a].data) THEN "oob"
  ELSE "none"

\* sound->getData()[i]
ReadFloat(a, i) == heap[assets[a].data].mem[i + 1]

\* --------------------------------------------------------- setStopMode
\* the first and last float PlayingSound::setStopMode reads (lines 203-213)
StopReadLo(v) ==
  IF v.channels = 1 THEN FrameIndex(v.pos) ELSE FrameIndex(v.pos) * 2
StopReadHi(v) ==
  IF v.channels = 1 THEN FrameIndex(v.pos) ELSE FrameIndex(v.pos) * 2 + 1

\* does this call of setStopMode read the sample buffer at all
StopReads(v) == v.sound # Null /\ ~v.stopMode /\ ~v.waitingStart

setStopModeFault(v) ==
  IF StopReads(v) THEN AccessFault(v.sound, StopReadLo(v), StopReadHi(v))
  ELSE "none"

\* the stop that leaves a waiting voice its asset
setStopModeKeepsWaiting(v) ==
  IF v.sound = Null THEN [v EXCEPT !.waitingStart = FALSE]
  ELSE IF v.stopMode THEN [v EXCEPT !.waitingStart = FALSE]
  ELSE IF v.waitingStart
    THEN [v EXCEPT !.version = @ + MAX_PLAYING_SOUNDS, !.waitingStart = FALSE]
  ELSE [v EXCEPT !.version = @ + MAX_PLAYING_SOUNDS,
                 !.volumeL = v.volumeL * ReadFloat(v.sound, StopReadLo(v)),
                 !.volumeR = v.volumeR * ReadFloat(v.sound, StopReadHi(v)),
                 !.volumeTrendL = sign(v.volumeL * ReadFloat(v.sound, StopReadLo(v))) * (-StopTrend),
                 !.volumeTrendR = sign(v.volumeR * ReadFloat(v.sound, StopReadHi(v))) * (-StopTrend),
                 !.stopMode = TRUE, !.sound = Null]

\* the stop that forgets to advance the version
setStopModeKeepsVersion(v) ==
  IF v.sound = Null THEN [v EXCEPT !.waitingStart = FALSE]
  ELSE IF v.stopMode THEN [v EXCEPT !.waitingStart = FALSE]
  ELSE IF v.waitingStart THEN [v EXCEPT !.waitingStart = FALSE, !.sound = Null]
  ELSE [v EXCEPT !.volumeTrendL = sign(v.volumeL) * (-StopTrend),
                 !.volumeTrendR = sign(v.volumeR) * (-StopTrend),
                 !.stopMode = TRUE, !.sound = Null]

setStopMode(v) ==
  IF v.sound = Null THEN [v EXCEPT !.waitingStart = FALSE]
  ELSE IF v.stopMode THEN [v EXCEPT !.waitingStart = FALSE]
  ELSE IF v.waitingStart
    THEN [v EXCEPT !.version = @ + MAX_PLAYING_SOUNDS,
                   !.waitingStart = FALSE, !.sound = Null]
  ELSE LET valL == ReadFloat(v.sound, StopReadLo(v))
           valR == ReadFloat(v.sound, StopReadHi(v))
           newL == v.volumeL * valL
           newR == v.volumeR * valR
       IN [v EXCEPT !.version = @ + MAX_PLAYING_SOUNDS,
                    !.volumeL = newL, !.volumeR = newR,
                    !.volumeTrendL = sign(newL) * (-StopTrend),
                    !.volumeTrendR = sign(newR) * (-StopTrend),
                    !.stopMode = TRUE, !.sound = Null]

\* --------------------------------------------------------------- mixTo
\* master_volume * volume * min(1.0f + pan, 1.0f), as a gain
WishVolume(mv, volume, panTerm) ==
  (mv * volume * Min(ParamUnit + panTerm, ParamUnit))
     * (GainUnit \div (ParamUnit * ParamUnit * ParamUnit))
wishVolumeL(v, mv) == WishVolume(mv, v.volume, v.pan)
wishVolumeR(v, mv) == WishVolume(mv, v.volume, -v.pan)

\* double(sound->frequency) * inv_frequency * pitch, in 1/PosUnit frames
Advance(v) == TruncDiv(v.pitch, RateDiv(assets[v.sound].frequency))

\* the floats one interpolated read at position p touches (ip and ip + 1)
MixReadLo(v, p) ==
  IF v.channels = 1 THEN FrameIndex(p) ELSE FrameIndex(p) * 2
MixReadHi(v, p) ==
  IF v.channels = 1 THEN FrameIndex(p) + 1 ELSE FrameIndex(p) * 2 + 3

\* lines 292-300: one step of the gain towards its target
NudgeGain(g, wish) ==
  IF g = wish THEN g
  ELSE IF Abs(g - wish) <= ONE_DIV_512 THEN wish
  ELSE IF g < wish THEN g + ONE_DIV_512
  ELSE g - ONE_DIV_512

\* lines 326-332: one step of the stop-fade of one channel
FadeGain(g, trend) ==
  IF Abs(g) <= ONE_DIV_512 THEN 0
  ELSE TruncDiv((g + trend) * DecayNum, DecayDen)

\* lines 230-232: the condition of the fast path
FastPath(v, mv, count) ==
  /\ ~v.stopMode /\ ~v.waitingStart /\ v.sound # Null
  /\ v.volumeL > 0 /\ v.volumeR > 0
  /\ wishVolumeL(v, mv) = v.volumeL /\ wishVolumeR(v, mv) = v.volumeR
  /\ v.pos + Advance(v) * count < v.stopPos

\* lines 234-260: the fast path reads at pos, pos + advance, ...; the
\* extreme reads are the first and the last one
FastFault(v, a, count) ==
  LET first == v.pos
      last == v.pos + Advance(v) * (count - 1)
  IN AccessFault(a, MixReadLo(v, Min(first, last)), MixReadHi(v, Max(first, last)))

\* What a voice did at one output sample: "play" (lines 289-290, it added
\* l and r, read at pos), "fade" (lines 345-346, it added its gains),
\* "silence" (the same, the sample at which the stop-fade cleared itself),
\* "wait" and "none" (it added nothing; "none": the loop did not run).
\* l and r are in units of 1/GainUnit.
NoEvent == [ kind |-> "none", pos |-> 0, l |-> 0, r |-> 0 ]
WaitEvent == [ kind |-> "wait", pos |-> 0, l |-> 0, r |-> 0 ]

\* lerp(sndData[lo], sndData[hi], t) * gain, t = frac / PosUnit; t is taken
\* to 1/FracSteps
FracSteps == 1000
Amplitude(a, lo, hi, frac, gain) ==
  ReadFloat(a, lo) * gain
    + TruncDiv((ReadFloat(a, hi) - ReadFloat(a, lo)) * gain * (frac \div (PosUnit \div FracSteps)),
               FracSteps)

\* lines 285-290 (367-373, 238-242, 250-255): what one read at position p adds
PlayEvent(v, a, p) ==
  LET ip == FrameIndex(p)
      frac == p - ip * PosUnit
  IN IF v.channels = 1
       THEN [ kind |-> "play", pos |-> p,
              l |-> Amplitude(a, ip, ip + 1, frac, v.volumeL),
              r |-> Amplitude(a, ip, ip + 1, frac, v.volumeR) ]
       ELSE [ kind |-> "play", pos |-> p,
              l |-> Amplitude(a, ip * 2, ip * 2 + 2, frac, v.volumeL),
              r |-> Amplitude(a, ip * 2 + 1, ip * 2 + 3, frac, v.volumeR) ]

\* the sample after which a looping voice ends as a one-shot voice does
PlaySampleEndsLoop(v, a, advance, mv) ==
  LET rd == AccessFault(a, MixReadLo(v, v.pos), MixReadHi(v, v.pos))
      v1 == [v EXCEPT !.volumeL = NudgeGain(v.volumeL, wishVolumeL(v, mv)),
                      !.volumeR = NudgeGain(v.volumeR, wishVolumeR(v, mv)),
                      !.pos = v.pos + advance]
      ends == v.pos + advance >= v.stopPos
      sf == IF ends THEN setStopModeFault([v EXCEPT !.pos = v.stopPos]) ELSE "none"
  IN IF rd # "none" THEN [v |-> v, fault |-> rd, brk |-> TRUE, ev |-> NoEvent]
     ELSE IF sf # "none" THEN [v |-> v, fault |-> sf, brk |-> TRUE, ev |-> NoEvent]
     ELSE [v |-> IF ends THEN setStopMode([v1 EXCEPT !.pos = v.stopPos]) ELSE v1,
           fault |-> "none", brk |-> FALSE, ev |-> PlayEvent(v, a, v.pos)]

\* lines 283-323 (365-403): one output sample of a voice that plays
PlaySample(v, a, advance, mv) ==
  LET rd == AccessFault(a, MixReadLo(v, v.pos), MixReadHi(v, v.pos))
      v1 == [v EXCEPT !.volumeL = NudgeGain(v.volumeL, wishVolumeL(v, mv)),
                      !.volumeR = NudgeGain(v.volumeR, wishVolumeR(v, mv)),
                      !.pos = v.pos + advance]
      ends == v.pos + advance >= v.stopPos /\ ~v.loop
      sf == IF ends THEN setStopModeFault([v EXCEPT !.pos = v.stopPos]) ELSE "none"
  IN IF rd # "none" THEN [v |-> v, fault |-> rd, brk |-> TRUE, ev |-> NoEvent]
     ELSE IF sf # "none" THEN [v |-> v, fault |-> sf, brk |-> TRUE, ev |-> NoEvent]
     ELSE [v |-> IF ends THEN setStopMode([v1 EXCEPT !.pos = v.stopPos])
                 ELSE IF v.pos + advance >= v.stopPos
                   THEN [v1 EXCEPT !.pos = v.startPos]
                 ELSE v1,
           fault |-> "none", brk |-> FALSE, ev |-> PlayEvent(v, a, v.pos)]

\* lines 324-347 (405-431): one output sample of a voice in stop-fade; the
\* stereo loop leaves the loop when both gains are 0, before it adds them;
\* the mono loop does not leave
FadeSample(v) ==
  LET l == FadeGain(v.volumeL, v.volumeTrendL)
      r == FadeGain(v.volumeR, v.volumeTrendR)
      silent == (l = 0 /\ r = 0)
  IN [v |-> [v EXCEPT !.volumeL = l, !.volumeR = r,
                      !.stopMode = IF silent THEN FALSE ELSE @],
      fault |-> "none",
      brk |-> (silent /\ v.channels # 1),
      ev |-> [ kind |-> IF silent THEN "silence" ELSE "fade", pos |-> v.pos,
               l |-> l, r |-> r ]]

\* lines 274-282 (354-362): one output sample of a voice that waits
WaitSample(v, tick) ==
  LET t == v.timeToStart - tick
  IN [v |-> IF t <= 0
              THEN [v EXCEPT !.timeToStart = t, !.waitingStart = FALSE, !.pos = v.startPos]
              ELSE [v EXCEPT !.timeToStart = t],
      fault |-> "none", brk |-> FALSE, ev |-> WaitEvent]

MixSample(v, a, advance, mv) ==
  IF v.waitingStart THEN WaitSample(v, 1)
  ELSE IF ~v.stopMode THEN PlaySample(v, a, advance, mv)
  ELSE FadeSample(v)

\* the per-sample loop, lines 270-433, for n consecutive output samples:
\* a, advance and the targets are the locals computed on entry.  The loop
\* ends early on `break' and on an undefined access.  (The n samples are
\* done as two halves one after the other, which is the same loop.)
\* st.log collects what the voice did at each sample the loop ran for:
\* Logged adds what the sample s did.
Logged(log, s) ==
  [v |-> s.v, fault |-> s.fault, brk |-> s.brk, log |-> Append(log, s.ev)]

RECURSIVE MixLoop(_, _, _, _, _)
MixLoop(st, a, advance, mv, n) ==
  IF n <= 0 \/ st.brk THEN st
  ELSE IF n = 1 THEN Logged(st.log, MixSample(st.v, a, advance, mv))
  ELSE LET half == MixLoop(st, a, advance, mv, n \div 2)
       IN IF half.brk THEN half
          ELSE MixLoop(half, a, advance, mv, n - (n \div 2))

\* the samples of the chunk a call did not reach
NoEvents(count) == [k \in 1 .. count |-> NoEvent]
PadLog(log, count) ==
  [k \in 1 .. count |-> IF k <= Len(log) THEN log[k] ELSE NoEvent]

\* the wait that also skips a chunk exactly as long as the time left
WaitsWholeChunkOrJust(v, count) == v.waitingStart /\ v.timeToStart >= count

\* line 263: the voice waits for longer than the whole chunk
WaitsWholeChunk(v, count) == v.waitingStart /\ v.timeToStart > count

\* PlayingSound::mixTo(mix, count, frequency, inv_frequency, buffer_time);
\* buffer_time is count ticks.  The result is the voice after the call, the
\* undefined access the call made, if any, and what the call did at each of
\* the count samples.
mixTo(v, mv, count) ==
  IF v.sound = Null THEN [v |-> v, fault |-> "none", log |-> NoEvents(count)]
  ELSE IF ~assets[v.sound].alive THEN [v |-> v, fault |-> "uaf", log |-> NoEvents(count)]
  ELSE IF assets[v.sound].data = Null THEN [v |-> v, fault |-> "none", log |-> NoEvents(count)]
  ELSE IF FastPath(v, mv, count)
    THEN LET f == FastFault(v, v.sound, count)
         IN IF f # "none" THEN [v |-> v, fault |-> f, log |-> NoEvents(count)]
            ELSE [v |-> [v EXCEPT !.pos = v.pos + Advance(v) * count],
                  fault |-> "none",
                  log |-> [k \in 1 .. count |->
                             PlayEvent(v, v.sound, v.pos + Advance(v) * (k - 1))]]
  ELSE IF WaitsWholeChunk(v, count)
    THEN [v |-> [v EXCEPT !.timeToStart = v.timeToStart - count], fault |-> "none",
          log |-> NoEvents(count)]
  ELSE [MixLoop([v |-> v, fault |-> "none", brk |-> FALSE, log |-> << >>],
                v.sound, Advance(v), mv, count)
          EXCEPT !.log = PadLog(@, count)]

\* ------------------------------------------------------- fill_buffer_cb
\* the buffer left as the device handed it over
KeepBuffer(buf, n) == buf

\* line 468, memset(out_buf, 0, ...): n frames of two floats
ZeroBuffer(buf, n) == << >> \o [k \in 1 .. n |-> << 0, 0 >>]

\* mix[0] += l, mix[1] += r of one call of mixTo: the chunk starts at frame
\* `done' of the buffer (frames count from 1 here)
AddToMix(out, done, log) ==
  SubSeq(out, 1, done)
    \o [k \in 1 .. Len(log) |->
          << out[done + k][1] + log[k].l, out[done + k][2] + log[k].r >>]
    \o SubSeq(out, done + Len(log) + 1, Len(out))

\* lines 475-477: st is the voice table, the two counters, the output
\* buffer, the frames done before the turn, what each voice did, the calls
\* of mixTo made (slot, first output frame, count) and the undefined access
\* so far; m is what mixTo returned for voice i
MixedVoice(st, i, m) ==
  [st EXCEPT !.voices[i] = m.v,
             !.fault = m.fault,
             !.out = AddToMix(@, st.done, m.log),
             !.logs[i] = @ \o m.log,
             !.calls = Append(@, [ slot |-> i, from |-> st.done, count |-> Len(m.log) ])]

\* lines 475-477, the slots i, i + 1, ... of one turn
RECURSIVE MixVoices(_, _, _, _)
MixVoices(st, mv, count, i) ==
  IF i >= MAX_PLAYING_SOUNDS \/ st.fault # "none" THEN st
  ELSE IF isEmpty(st.voices[i])
    THEN MixVoices([st EXCEPT !.logs[i] = @ \o NoEvents(count)], mv, count, i + 1)
  ELSE MixVoices(MixedVoice(st, i, mixTo(st.voices[i], mv, count)), mv, count, i + 1)

\* the turn that leaves out_buf where it was
FillChunkInPlace(st, mv, samples) ==
  LET mixed == MixVoices(st, mv, Min(samples, STEP), 0)
      rest == samples - STEP
  IN [mixed EXCEPT !.total = @ + Min(rest, STEP),
                   !.time = @ + Min(rest, STEP)]

\* lines 475-482, one turn of the loop; samples is the loop variable before
\* the turn, out_buf advances by step
FillChunk(st, mv, samples) ==
  LET mixed == MixVoices(st, mv, Min(samples, STEP), 0)
      rest == samples - STEP
  IN [mixed EXCEPT !.total = @ + Min(rest, STEP),
                   !.time = @ + Min(rest, STEP),
                   !.done = @ + Min(samples, STEP)]

\* lines 473-483
RECURSIVE FillLoop(_, _, _)
FillLoop(st, mv, samples) ==
  IF samples <= 0 \/ st.fault # "none" THEN st
  ELSE FillLoop(FillChunk(st, mv, samples), mv, samples - STEP)

\* fill_buffer_cb(out_buf, frequency, channels, samples): buf is what the
\* device buffer holds when the callback gets it
fill_buffer_cb(buf, samples) ==
  FillLoop([voices |-> playing_sounds, total |-> total_samples_played,
            time |-> total_time_played, out |-> ZeroBuffer(buf, samples),
            done |-> 0, logs |-> [i \in Slots |-> << >>], calls |-> << >>,
            fault |-> "none"],
           master_volume, samples)

\* ------------------------------------------------------ inputs of the model
Frequencies == { OUTPUT_SAMPLE_RATE }
MonoInputs == { << 1, 1, 0 >>, << 1, 0 >> }          \* float arrays
StereoInputs == { << 1, -1, 1, -1, 1, -1 >> }        \* float2 arrays, interleaved
CallbackSizes == { 1, 4 }                            \* frame counts
StaleFloats == { 7 }                                 \* what the device buffer held before
\* the arguments of play_sound_1, play_sound_loop_1 and play_sound_deferred_1:
\* volume, pitch, pan, start_time, end_time, loop, defer_time_sec
DeferTicks == 2
PlayCalls ==
  { << ParamUnit, PitchUnit, 0, 0, VERY_BIG_NUMBER, FALSE, 0 >>,
    << ParamUnit, PitchUnit, 0, 0, VERY_BIG_NUMBER, TRUE, 0 >>,
    << ParamUnit, PitchUnit, 0, 0, VERY_BIG_NUMBER, FALSE, DeferTicks >> }
SetPitches == { -PitchUnit }
SetVolumes == { ParamUnit \div 2 }
SetPans == { ParamUnit }
SetPosTimes == { -5 * OUTPUT_SAMPLE_RATE, VERY_BIG_NUMBER }
MasterVolumes == { ParamUnit \div 2 }

\* ------------------------------------------------------------- threads
AudioThread == 0
Callers == 1 .. NumCallers
NoThread == -1
Unlocked == [ owner |-> NoThread, count |-> 0 ]
Idle == [ at |-> "idle", op |-> "", arg |-> 0 ]
AudioIdle == [ at |-> "idle", samples |-> 0 ]

\* --------------------------------------------------------------- Init
NoFault == [ kind |-> "none", site |-> "" ]
NoFade == [ cause |-> "", frames |-> 0 ]
NoOp == [ op |-> "", arg |-> 0 ]

InitProgram ==
  /\ assets = [a \in Assets |-> EmptySound]
  /\ heap = [b \in Buffers |-> FreshBuffer]
  /\ sound_data_pointers = {}
  /\ playing_sounds = [i \in Slots |-> EmptyVoice]
  /\ master_volume = ParamUnit
  /\ device_initialized = FALSE
  /\ device_running = FALSE
  /\ out_buf = << >>
  /\ total_samples_played = 0
  /\ total_time_played = 0
  /\ sound_cs = Unlocked
  /\ sound_cs_manual_entered = FALSE
  /\ pc = [t \in Callers |-> Idle]
  /\ audio = AudioIdle
  /\ fault = NoFault
  /\ handles = << >>
  /\ slotPlay = [i \in Slots |-> 0]
  /\ lastOp = NoOp
  /\ steps = 0
  /\ framesOut = 0
  /\ fade = [i \in Slots |-> NoFade]
  /\ inBatch = [t \in Callers |-> FALSE]

\* the gain of the float model is not followed
NoRamp == [ g |-> 0, wish |-> 0, left |-> 0 ]

\* the position of the double model is not followed
NoChunk == [ count |-> 0 ]

Init == InitProgram /\ ramp = NoRamp /\ chunk = NoChunk

assetVars == << assets, heap, sound_data_pointers >>
counterVars == << total_samples_played, total_time_played, framesOut >>
mixerVars == << master_volume, device_initialized, device_running >>
playVars == << handles, slotPlay >>
voiceVars == << playing_sounds, fade >>
threadVars == << sound_cs, sound_cs_manual_entered, pc, audio, inBatch >>

Running == fault.kind = "none"
\* the step is the control operation op on the handle h
Did(op, h) == lastOp' = [ op |-> op, arg |-> h ] /\ out_buf' = << >> /\ UNCHANGED << ramp, chunk >>
\* the step is something else
Other == lastOp' = NoOp /\ out_buf' = << >> /\ UNCHANGED << ramp, chunk >>

\* init_sound_lib_internal, lines 516-552, the device opened: a call with
\* device_initialized set returns at once
init_sound_lib_internal == device_initialized' = TRUE /\ device_running' = TRUE

\* the step makes the undefined access `kind' at `site' and the program is lost
Trap(kind, site) ==
  /\ fault' = [ kind |-> kind, site |-> site ]
  /\ UNCHANGED << assetVars, counterVars, playVars, voiceVars, mixerVars >>

\* the history of the stop-fades after a step that leaves the voice table
\* `voices' and produced `frames' output frames: a slot that stays in
\* stop-fade has had that many frames more, one that enters it has `cause'
FadeAfter(voices, frames, cause) ==
  [i \in Slots |->
     IF ~voices[i].stopMode THEN NoFade
     ELSE IF playing_sounds[i].stopMode
       THEN [fade[i] EXCEPT !.frames = Min(@ + frames, FadeCap)]
       ELSE [ cause |-> cause, frames |-> 0 ]]

\* ------------------------------------------------------ asset operations
HasFresh == \E b \in Buffers : heap[b].state = "fresh"
\* new float[size]
NewBuffer == CHOOSE b \in Buffers : heap[b].state = "fresh" /\ \A c \in Buffers : heap[c].state = "fresh" => b <= c

\* the floats of the buffer after create_sound / create_sound_stereo:
\* the caller's frames and the guard frame, a copy of frame 0
MonoMem(input) == input \o << input[1] >>
StereoMem(input) == input \o << input[1], input[2] >>

\* the first undefined access in slot order, "none" if there is none
FirstFault(fs) ==
  IF \E i \in Slots : fs[i] # "none"
    THEN fs[CHOOSE i \in Slots : fs[i] # "none" /\ \A j \in Slots : j < i => fs[j] = "none"]
    ELSE "none"

\* the undefined access of the stops of a force-stop walk, in slot order
StopFaults(which) ==
  FirstFault([i \in Slots |->
     IF playing_sounds[i].sound \in which /\ ~isEmpty(playing_sounds[i])
       THEN setStopModeFault(playing_sounds[i]) ELSE "none"])

\* the walk that stops nothing
StopVoicesOfNobody(which) == playing_sounds

\* for (auto && s : playing_sounds) if (s.sound == ...) if (!s.isEmpty()) s.setStopMode();
StopVoicesOf(which) ==
  [i \in Slots |->
     IF playing_sounds[i].sound \in which /\ ~isEmpty(playing_sounds[i])
       THEN setStopMode(playing_sounds[i]) ELSE playing_sounds[i]]

\* PcmSound::deleteData of asset a: delete[] of a buffer that is not
\* allocated any more is undefined
DeleteDataFault(a) ==
  IF assets[a].data # Null /\ heap[assets[a].data].state # "live" THEN "doublefree" ELSE "none"
HeapAfterDelete(a, op) ==
  IF assets[a].data = Null THEN heap
  ELSE [heap EXCEPT ![assets[a].data].state = "freed", ![assets[a].data].by = op]

\* the caller's next object is the first one that does not exist (the
\* objects are alike)
CanCreate(a) == ~assets[a].alive /\ \A b \in Assets : b < a => assets[b].alive

\* the bytes of a buffer: four frames more than the samples (sizeof(float)
\* is 4)
getDataMemorySize(channels, samples) == channels * (samples + 4) * 4
\* the floats memcpy reads from the caller's array of `frames' frames, and
\* those of them that lie beyond its end
MemcpyFloats(channels, frames) == getDataMemorySize(channels, frames) \div 4
OverRead(channels, frames) == Max(MemcpyFloats(channels, frames) - channels * frames, 0)

\* create_sound and the move of its result into the caller's object a.
\* memcpy reads getDataMemorySize() bytes from the caller's array:
\* `readable' says whether the memory after the array can be read, which is
\* the caller's allocation
CreateInto(a, frequency, channels, frames, mem, readable) ==
  /\ Running /\ CanCreate(a)
  /\ Other
  /\ IF frequency < 1 \/ frames = 0
       THEN /\ assets' = [assets EXCEPT ![a] = [EmptySound EXCEPT !.alive = TRUE]]
            /\ UNCHANGED << heap, sound_data_pointers, fault >>
            /\ UNCHANGED << counterVars, playVars, voiceVars, master_volume >>
            /\ init_sound_lib_internal
       ELSE IF OverRead(channels, frames) > 0 /\ ~readable THEN Trap("oob", "memcpy")
       ELSE /\ HasFresh
            /\ assets' = [assets EXCEPT ![a] =
                 [ alive |-> TRUE, data |-> NewBuffer, frequency |-> frequency,
                   samples |-> frames, channels |-> channels ]]
            /\ heap' = [heap EXCEPT ![NewBuffer] = [ state |-> "live", mem |-> mem, by |-> "" ]]
            /\ sound_data_pointers' = sound_data_pointers \cup { NewBuffer }
            /\ init_sound_lib_internal
            /\ UNCHANGED << counterVars, playVars, voiceVars, master_volume, fault >>

create_sound(a, frequency, input, readable) ==
  CreateInto(a, frequency, 1, Len(input),
             IF Len(input) = 0 THEN << >> ELSE MonoMem(input), readable)

create_sound_stereo(a, frequency, input, readable) ==
  CreateInto(a, frequency, 2, Len(input) \div 2,
             IF Len(input) = 0 THEN << >> ELSE StereoMem(input), readable)

\* what delete_sound and ~PcmSound do after their early returns
StopAndFree(a, op) ==
  IF StopFaults({a}) # "none" THEN Trap(StopFaults({a}), "voice")
  ELSE IF DeleteDataFault(a) # "none" THEN Trap(DeleteDataFault(a), "delete")
  ELSE /\ playing_sounds' = StopVoicesOf({a})
       /\ fade' = FadeAfter(StopVoicesOf({a}), 0, op)
       /\ heap' = HeapAfterDelete(a, op)
       /\ sound_data_pointers' = sound_data_pointers \ { assets[a].data }
       /\ UNCHANGED << counterVars, playVars, mixerVars, fault >>

delete_sound(a) ==
  /\ Running /\ assets[a].alive
  /\ Other
  /\ StopAndFree(a, "delete_sound")
  /\ assets' = IF fault'.kind # "none" THEN assets
               ELSE [assets EXCEPT ![a].data = Null, ![a].samples = 0]

\* PcmSound::~PcmSound
Destroy(a) ==
  /\ Running /\ assets[a].alive
  /\ Other
  /\ IF assets[a].data = Null
       THEN /\ assets' = [assets EXCEPT ![a] = EmptySound]
            /\ UNCHANGED << heap, sound_data_pointers, fault >>
            /\ UNCHANGED << counterVars, playVars, voiceVars, mixerVars >>
       ELSE /\ StopAndFree(a, "~PcmSound")
            /\ assets' = IF fault'.kind # "none" THEN assets
                         ELSE [assets EXCEPT ![a] = EmptySound]

\* PcmSound::operator=(const PcmSound &), a = b: no lock, no walk of the
\* voice table
CopyAssign(a, b) ==
  /\ Running /\ a # b /\ assets[a].alive /\ assets[b].alive
  /\ Other
  /\ IF DeleteDataFault(a) # "none" THEN Trap(DeleteDataFault(a), "delete")
     ELSE IF AccessFault(b, 0, 0) # "none" THEN Trap(AccessFault(b, 0, 0), "memcpy")
     ELSE /\ HasFresh
          /\ assets' = [assets EXCEPT ![a] = [assets[b] EXCEPT !.data = NewBuffer]]
          /\ heap' = [HeapAfterDelete(a, "operator=(const&)") EXCEPT ![NewBuffer] =
                        [ state |-> "live", mem |-> heap[assets[b].data].mem, by |-> "" ]]
          /\ sound_data_pointers' =
               (sound_data_pointers \ { assets[a].data }) \cup { NewBuffer }
          /\ UNCHANGED << counterVars, playVars, voiceVars, mixerVars, fault >>

\* PcmSound::operator=(PcmSound &&), a = move(b)
MoveAssign(a, b) ==
  /\ Running /\ a # b /\ assets[a].alive /\ assets[b].alive
  /\ Other
  /\ IF StopFaults({a, b}) # "none" THEN Trap(StopFaults({a, b}), "voice")
     ELSE /\ playing_sounds' = StopVoicesOf({a, b})
          /\ fade' = FadeAfter(StopVoicesOf({a, b}), 0, "operator=(&&)")
          /\ assets' = [assets EXCEPT ![a] = assets[b], ![b].data = Null]
          /\ UNCHANGED << heap, sound_data_pointers >>
          /\ UNCHANGED << counterVars, playVars, mixerVars, fault >>

delete_allocated_sounds ==
  /\ Running
  /\ Other
  /\ heap' = [b \in Buffers |->
                IF b \in sound_data_pointers
                  THEN [heap[b] EXCEPT !.state = "freed", !.by = "delete_allocated_sounds"]
                ELSE heap[b]]
  /\ sound_data_pointers' = {}
  /\ UNCHANGED << assets, counterVars, playVars, voiceVars, mixerVars, fault >>

\* the floats of a buffer of `samples' frames after the guard frame, the
\* frame at index samples, has been made a copy of frame 0 (lines 744,
\* 755-756, 778, 783-784)
WithStaleGuard(mem, samples, channels) == mem
WithGuard(mem, samples, channels) ==
  IF channels = 1
    THEN [mem EXCEPT ![samples + 1] = mem[1]]
    ELSE [mem EXCEPT ![samples * 2 + 1] = mem[1], ![samples * 2 + 2] = mem[2]]

\* lines 743 and 749-754: count floats of in_data stored into a mono
\* buffer, or each into both channels of a stereo buffer
StoreMono(mem, channels, in_data, count) ==
  IF channels = 1
    THEN [k \in 1 .. Len(mem) |-> IF k <= count THEN in_data[k] ELSE mem[k]]
    ELSE [k \in 1 .. Len(mem) |-> IF k <= 2 * count THEN in_data[(k + 1) \div 2] ELSE mem[k]]

\* lines 773-776 and 782: count float2 of in_data stored into a stereo
\* buffer, or the mean of each into a mono buffer
StoreStereo(mem, channels, in_data, count) ==
  IF channels = 1
    THEN [k \in 1 .. Len(mem) |->
            IF k <= count THEN (in_data[2 * k - 1] + in_data[2 * k]) \div 2 ELSE mem[k]]
    ELSE [k \in 1 .. Len(mem) |-> IF k <= 2 * count THEN in_data[k] ELSE mem[k]]

\* set_sound_data and set_sound_data_stereo after their argument is known:
\* frames is the number of frames of in_data, stored the new floats
SetData(op, a, frames, stored) ==
  LET sound == assets[a]
      count == Min(sound.samples, frames)
  IN /\ Running /\ sound.alive
     /\ Did(op, a)
     /\ IF sound.data = Null \/ count = 0
          THEN UNCHANGED << assetVars, counterVars, playVars, voiceVars, mixerVars, fault >>
        ELSE IF heap[sound.data].state # "live" THEN Trap("uaf", "memcpy")
        ELSE /\ heap' = [heap EXCEPT ![sound.data].mem =
                           WithGuard(stored, sound.samples, sound.channels)]
             /\ UNCHANGED << assets, sound_data_pointers >>
             /\ UNCHANGED << counterVars, playVars, voiceVars, mixerVars, fault >>

\* set_sound_data(sound, in_data), in_data an array of float
set_sound_data(a, in_data) ==
  SetData("set_sound_data", a, Len(in_data),
          StoreMono(heap[assets[a].data].mem, assets[a].channels, in_data,
                    Min(assets[a].samples, Len(in_data))))

\* set_sound_data_stereo(sound, in_data), in_data an array of float2 given
\* as its floats
set_sound_data_stereo(a, in_data) ==
  SetData("set_sound_data_stereo", a, Len(in_data) \div 2,
          StoreStereo(heap[assets[a].data].mem, assets[a].channels, in_data,
                      Min(assets[a].samples, Len(in_data) \div 2)))

\* ------------------------------------------------------ voice operations
\* the allocation that takes slot 1 when no slot is empty
allocate_playing_sound_Steals ==
  IF \E i \in Slots : i >= 1 /\ isEmpty(playing_sounds[i])
    THEN CHOOSE i \in Slots : /\ i >= 1 /\ isEmpty(playing_sounds[i])
                              /\ \A j \in Slots : (j >= 1 /\ isEmpty(playing_sounds[j])) => i <= j
    ELSE 1

\* the allocation that starts its search at slot 0
allocate_playing_sound_FromZero ==
  IF \E i \in Slots : isEmpty(playing_sounds[i])
    THEN CHOOSE i \in Slots : /\ isEmpty(playing_sounds[i])
                              /\ \A j \in Slots : isEmpty(playing_sounds[j]) => i <= j
    ELSE -1

\* the index allocate_playing_sound returns, -1 if the table is full
allocate_playing_sound ==
  IF \E i \in Slots : i >= 1 /\ isEmpty(playing_sounds[i])
    THEN CHOOSE i \in Slots : /\ i >= 1 /\ isEmpty(playing_sounds[i])
                              /\ \A j \in Slots : (j >= 1 /\ isEmpty(playing_sounds[j])) => i <= j
    ELSE -1

\* the allocation that sets the version instead of advancing it
AfterAllocateSetsVersion(idx) ==
  [playing_sounds EXCEPT ![idx].version = MAX_PLAYING_SOUNDS]

\* the allocation that advances the version by one
AfterAllocateByOne(idx) ==
  [playing_sounds EXCEPT ![idx].version = @ + 1]

\* the voice table after allocate_playing_sound returned idx
AfterAllocate(idx) ==
  [playing_sounds EXCEPT ![idx].version = @ + MAX_PLAYING_SOUNDS]

\* the slot after a play that clamps the end from frame 0, not from the start
PlayedVoiceStopFromZero(s, a, volume0, pitch0, pan0, start_time, end_time, loop, defer_time_sec) ==
  LET sound == assets[a]
      pitch == clamp(pitch0, PitchMin, PitchMax)
      pan == clamp(pan0, -ParamUnit, ParamUnit)
      volume == clamp(volume0, 0, VolumeMax)
      start == clamp(TruncDiv(start_time, RateDiv(sound.frequency)), 0, sound.samples - 1)
      stop == clamp(TruncDiv(end_time, RateDiv(sound.frequency)), 0, sound.samples - 1)
      pos == IF defer_time_sec < 0
               THEN Min(TruncDiv(-defer_time_sec, RateDiv(sound.frequency)), stop)
               ELSE start
  IN [s EXCEPT !.channels = sound.channels, !.sound = a, !.volume = volume,
               !.pitch = pitch, !.pan = pan,
               !.volumeL = WishVolume(master_volume, volume, pan),
               !.volumeR = WishVolume(master_volume, volume, -pan),
               !.pos = pos * PosUnit, !.startPos = start * PosUnit,
               !.stopPos = stop * PosUnit, !.loop = loop, !.stopMode = FALSE,
               !.timeToStart = Max(defer_time_sec, 0),
               !.waitingStart = (Max(defer_time_sec, 0) # 0)]

\* the slot after a play that leaves the pan out of the gains
PlayedVoiceCentred(s, a, volume0, pitch0, pan0, start_time, end_time, loop, defer_time_sec) ==
  LET sound == assets[a]
      pitch == clamp(pitch0, PitchMin, PitchMax)
      pan == clamp(pan0, -ParamUnit, ParamUnit)
      volume == clamp(volume0, 0, VolumeMax)
      start == clamp(TruncDiv(start_time, RateDiv(sound.frequency)), 0, sound.samples - 1)
      stop == clamp(TruncDiv(end_time, RateDiv(sound.frequency)), start, sound.samples - 1)
      pos == IF defer_time_sec < 0
               THEN Min(TruncDiv(-defer_time_sec, RateDiv(sound.frequency)), stop)
               ELSE start
  IN [s EXCEPT !.channels = sound.channels, !.sound = a, !.volume = volume,
               !.pitch = pitch, !.pan = pan,
               !.volumeL = WishVolume(master_volume, volume, 0),
               !.volumeR = WishVolume(master_volume, volume, 0),
               !.pos = pos * PosUnit, !.startPos = start * PosUnit,
               !.stopPos = stop * PosUnit, !.loop = loop, !.stopMode = FALSE,
               !.timeToStart = Max(defer_time_sec, 0),
               !.waitingStart = (Max(defer_time_sec, 0) # 0)]

\* lines 825-851: the slot s after play_sound_internal filled it in.
\* Times are in ticks; the positions are clamped as whole frames.
PlayedVoice(s, a, volume0, pitch0, pan0, start_time, end_time, loop, defer_time_sec) ==
  LET sound == assets[a]
      pitch == clamp(pitch0, PitchMin, PitchMax)
      pan == clamp(pan0, -ParamUnit, ParamUnit)
      volume == clamp(volume0, 0, VolumeMax)
      start == clamp(TruncDiv(start_time, RateDiv(sound.frequency)), 0, sound.samples - 1)
      stop == clamp(TruncDiv(end_time, RateDiv(sound.frequency)), start, sound.samples - 1)
      pos == IF defer_time_sec < 0
               THEN Min(TruncDiv(-defer_time_sec, RateDiv(sound.frequency)), stop)
               ELSE start
  IN [s EXCEPT !.channels = sound.channels, !.sound = a, !.volume = volume,
               !.pitch = pitch, !.pan = pan,
               !.volumeL = WishVolume(master_volume, volume, pan),
               !.volumeR = WishVolume(master_volume, volume, -pan),
               !.pos = pos * PosUnit, !.startPos = start * PosUnit,
               !.stopPos = stop * PosUnit, !.loop = loop, !.stopMode = FALSE,
               !.timeToStart = Max(defer_time_sec, 0),
               !.waitingStart = (Max(defer_time_sec, 0) # 0)]

play_sound_internal(a, volume, pitch, pan, start_time, end_time, loop, defer_time_sec) ==
  LET idx == allocate_playing_sound
      s == AfterAllocate(idx)[idx]
      h == PackHandle(idx, s.version)
  IN /\ Running /\ assets[a].alive
     /\ init_sound_lib_internal
     /\ UNCHANGED << assetVars, counterVars, master_volume, fault >>
     /\ IF idx < 0
          THEN Did("play_sound", InvalidHandle) /\ UNCHANGED << playVars, voiceVars >>
        ELSE IF assets[a].samples < MinPlayableSamples
          THEN /\ Did("play_sound", InvalidHandle)
               /\ playing_sounds' = AfterAllocate(idx)
               /\ UNCHANGED << playVars, fade >>
        ELSE /\ Did("play_sound", h)
             /\ playing_sounds' = [playing_sounds EXCEPT ![idx] =
                  PlayedVoice(s, a, volume, pitch, pan, start_time, end_time, loop, defer_time_sec)]
             /\ handles' = Append(handles, [ h |-> h, sound |-> a, at |-> framesOut,
                                            defer |-> Max(defer_time_sec, 0) ])
             /\ slotPlay' = [slotPlay EXCEPT ![idx] = Len(handles) + 1]
             /\ UNCHANGED fade

\* the handles the callers hold: what the successful plays returned
HeldHandles == { handles[p].h : p \in 1 .. Len(handles) }

\* a control operation that returns without touching anything
NoEffect == UNCHANGED << assetVars, counterVars, playVars, voiceVars, mixerVars, fault >>

\* a control operation that replaces the voice of slot idx by v
SetVoice(idx, v) ==
  /\ playing_sounds' = [playing_sounds EXCEPT ![idx] = v]
  /\ UNCHANGED << assetVars, counterVars, playVars, fade, mixerVars, fault >>

set_sound_pitch(h, pitch) ==
  /\ Running /\ Did("set_sound_pitch", h)
  /\ IF handle_to_index(h) < 0 THEN NoEffect
     ELSE SetVoice(handle_to_index(h), [playing_sounds[handle_to_index(h)] EXCEPT !.pitch = pitch])

set_sound_volume(h, volume) ==
  /\ Running /\ Did("set_sound_volume", h)
  /\ IF handle_to_index(h) < 0 THEN NoEffect
     ELSE SetVoice(handle_to_index(h), [playing_sounds[handle_to_index(h)] EXCEPT !.volume = volume])

set_sound_pan(h, pan) ==
  /\ Running /\ Did("set_sound_pan", h)
  /\ IF handle_to_index(h) < 0 THEN NoEffect
     ELSE SetVoice(handle_to_index(h), [playing_sounds[handle_to_index(h)] EXCEPT !.pan = pan])

\* the position that is clamped from below only
PlayPosOfUnclamped(v, pos_seconds) ==
  LET p == FloorDiv(pos_seconds, RateDiv(assets[v.sound].frequency))
      near == clamp(p, -1, FloorDiv(v.stopPos, PosUnit) + 1)
  IN Max(near * PosUnit, v.startPos)

\* lines 1002-1003: floor(frequency * pos_seconds) clamped to the window;
\* far positions are brought next to the window first, which the clamp
\* does anyway
PlayPosOf(v, pos_seconds) ==
  LET p == FloorDiv(pos_seconds, RateDiv(assets[v.sound].frequency))
      near == clamp(p, -1, FloorDiv(v.stopPos, PosUnit) + 1)
  IN clamp(near * PosUnit, v.startPos, v.stopPos)

set_sound_play_pos(h, pos_seconds) ==
  LET idx == handle_to_index(h)
      v == playing_sounds[idx]
  IN /\ Running /\ Did("set_sound_play_pos", h)
     /\ IF idx < 0 THEN NoEffect
        ELSE IF v.sound = Null \/ v.stopMode THEN NoEffect
        ELSE IF ~assets[v.sound].alive THEN Trap("uaf", "control")
        ELSE SetVoice(idx, [v EXCEPT !.pos = PlayPosOf(v, pos_seconds)])

stop_sound(h) ==
  LET idx == handle_to_index(h)
      v == playing_sounds[idx]
  IN /\ Running /\ Did("stop_sound", h)
     /\ IF idx < 0 THEN NoEffect
        ELSE IF v.sound = Null \/ v.stopMode THEN NoEffect
        ELSE IF setStopModeFault(v) # "none" THEN Trap(setStopModeFault(v), "voice")
        ELSE /\ playing_sounds' = [playing_sounds EXCEPT ![idx] = setStopMode(v)]
             /\ fade' = FadeAfter([playing_sounds EXCEPT ![idx] = setStopMode(v)], 0, "stop_sound")
             /\ UNCHANGED << assetVars, counterVars, playVars, mixerVars, fault >>

\* every non-empty slot, whatever it references
AllVoices == Assets \cup { Null }

\* the stop_all that leaves the voices that wait for their start alone
stop_all_sounds_NotWaiting ==
  /\ Running /\ Other
  /\ IF StopFaults(AllVoices) # "none" THEN Trap(StopFaults(AllVoices), "voice")
     ELSE /\ playing_sounds' = [i \in Slots |->
                                  IF playing_sounds[i].waitingStart THEN playing_sounds[i]
                                  ELSE StopVoicesOf(AllVoices)[i]]
          /\ fade' = FadeAfter(StopVoicesOf(AllVoices), 0, "stop_all_sounds")
          /\ UNCHANGED << assetVars, counterVars, playVars, mixerVars, fault >>

stop_all_sounds ==
  /\ Running /\ Other
  /\ IF StopFaults(AllVoices) # "none" THEN Trap(StopFaults(AllVoices), "voice")
     ELSE /\ playing_sounds' = StopVoicesOf(AllVoices)
          /\ fade' = FadeAfter(StopVoicesOf(AllVoices), 0, "stop_all_sounds")
          /\ UNCHANGED << assetVars, counterVars, playVars, mixerVars, fault >>

set_master_volume(volume) ==
  /\ Running /\ Other
  /\ master_volume' = volume
  /\ UNCHANGED << assetVars, counterVars, playVars, voiceVars, fault,
                  device_initialized, device_running >>

\* init_sound_lib_internal up to ma_device_start (lines 521-544): the device
\* runs and calls the callback, device_initialized is not set yet.  (A
\* device that cannot be opened never calls the callback and is left out.)
DeviceStart ==
  /\ Running /\ Other
  /\ ~device_initialized /\ ~device_running
  /\ device_running' = TRUE
  /\ UNCHANGED << assetVars, counterVars, playVars, voiceVars, master_volume,
                  device_initialized, fault >>

\* the buffer the device hands to the callback: n frames of whatever
DeviceBuffer(n, stale) == [k \in 1 .. n |-> << stale, stale >>]

\* miniaudio_data_callback with frame_count = n and p_output = buf
AudioCallback(n, buf) ==
  /\ Running /\ device_running
  /\ lastOp' = NoOp /\ UNCHANGED << ramp, chunk >>
  /\ IF ~device_initialized
       THEN /\ out_buf' = ZeroBuffer(buf, n)
            /\ framesOut' = framesOut + n
            /\ UNCHANGED << total_samples_played, total_time_played >>
            /\ UNCHANGED << assetVars, playVars, voiceVars, mixerVars, fault >>
       ELSE \E r \in { fill_buffer_cb(buf, n) } :
              IF r.fault # "none"
                THEN Trap(r.fault, "voice") /\ out_buf' = << >>
                ELSE /\ playing_sounds' = r.voices
                     /\ fade' = FadeAfter(r.voices, n, "end")
                     /\ total_samples_played' = r.total
                     /\ total_time_played' = r.time
                     /\ framesOut' = framesOut + n
                     /\ out_buf' = r.out
                     /\ UNCHANGED << assetVars, playVars, mixerVars, fault >>

\* ------------------------------------------------- the sequential program
\* One caller and the audio device, every operation and every callback run
\* to its end before the next one starts.
Tick == steps < MaxSteps /\ steps' = steps + 1 /\ UNCHANGED threadVars

Next ==
  \/ \E a \in Assets, f \in Frequencies, input \in MonoInputs, readable \in BOOLEAN :
       Tick /\ create_sound(a, f, input, readable)
  \/ \E a \in Assets, f \in Frequencies, input \in StereoInputs, readable \in BOOLEAN :
       Tick /\ create_sound_stereo(a, f, input, readable)
  \/ \E a \in Assets : Tick /\ delete_sound(a)
  \/ \E a \in Assets : Tick /\ Destroy(a)
  \/ \E a, b \in Assets : Tick /\ CopyAssign(a, b)
  \/ \E a, b \in Assets : Tick /\ MoveAssign(a, b)
  \/ Tick /\ delete_allocated_sounds
  \/ \E a \in Assets, c \in PlayCalls :
       Tick /\ play_sound_internal(a, c[1], c[2], c[3], c[4], c[5], c[6], c[7])
  \/ \E h \in HeldHandles, pitch \in SetPitches : Tick /\ set_sound_pitch(h, pitch)
  \/ \E h \in HeldHandles, volume \in SetVolumes : Tick /\ set_sound_volume(h, volume)
  \/ \E h \in HeldHandles, pan \in SetPans : Tick /\ set_sound_pan(h, pan)
  \/ \E h \in HeldHandles, t \in SetPosTimes : Tick /\ set_sound_play_pos(h, t)
  \/ \E h \in HeldHandles : Tick /\ stop_sound(h)
  \/ Tick /\ stop_all_sounds
  \/ \E volume \in MasterVolumes : Tick /\ set_master_volume(volume)
  \/ \E n \in CallbackSizes, stale \in StaleFloats :
       Tick /\ AudioCallback(n, DeviceBuffer(n, stale))
  \/ Tick /\ DeviceStart

Spec == Init /\ [][Next]_vars

\* ------------------------------------------------------------- properties
\* the voice of the p-th successful play is gone: it was stopped (by stop,
\* stop_all, a deletion or a move), or it ended, or its slot was given to a
\* later play
PlayIndex(p) == HandleIndex(handles[p].h)
Gone(p) == slotPlay[PlayIndex(p)] # p \/ playing_sounds[PlayIndex(p)].sound = Null
Plays == 1 .. Len(handles)

\* what each voice does at each of the n frames of a callback that starts
\* in this state
MixLog(n) == fill_buffer_cb(DeviceBuffer(n, 0), n).logs

\* C3: when delete_sound(a) returns, no voice slot references a, the
\* handles of the voices that played a are not playing any more, and the
\* asset has given its buffer up; and at no time does a voice reference an
\* asset whose buffer delete_sound has freed, so that no callback reads one.
C3Post(a) ==
  /\ \A i \in Slots : playing_sounds[i].sound # a
  /\ \A p \in Plays : handles[p].sound = a => ~is_playing(handles[p].h)
  /\ assets[a].data = Null
C3NoRead ==
  \A i \in Slots :
    LET a == playing_sounds[i].sound
    IN (a # Null /\ assets[a].data # Null /\ heap[assets[a].data].state = "freed")
         => heap[assets[a].data].by # "delete_sound"
C3Theorem ==
  /\ [][\A a \in Assets : (delete_sound(a) /\ fault'.kind = "none") => C3Post(a)']_vars
  /\ []C3NoRead
\* delete_sound has just force-stopped a playing voice and freed its buffer
C3Witness ==
  /\ fault.kind = "none"
  /\ \E p \in Plays, b \in Buffers :
       /\ slotPlay[PlayIndex(p)] = p
       /\ fade[PlayIndex(p)].cause = "delete_sound"
       /\ assets[handles[p].sound].data = Null
       /\ heap[b].state = "freed" /\ heap[b].by = "delete_sound"

\* C4: the mix routine and setStopMode never go through a voice's asset
\* reference to an asset that is destroyed or to a buffer that is freed or
\* null.
C4Claim == ~(fault.site = "voice" /\ fault.kind \in { "uaf", "null" })

\* C5: a handle that is valid resolves to the voice its play created: the
\* slot holds that play, references the asset that was played and is not in
\* stop-fade.
C5Theorem ==
  \A p \in Plays :
    is_handle_valid(handles[p].h) =>
      /\ slotPlay[PlayIndex(p)] = p
      /\ playing_sounds[PlayIndex(p)].sound = handles[p].sound
      /\ ~playing_sounds[PlayIndex(p)].stopMode
\* a slot was played twice; the later handle is valid, the earlier is not
C5Witness ==
  \E p, q \in Plays :
    /\ p < q /\ PlayIndex(p) = PlayIndex(q)
    /\ is_handle_valid(handles[q].h) /\ ~is_handle_valid(handles[p].h)

\* C6: the handles of any two successful plays differ, and two plays of the
\* same slot got different version bits.
C6Theorem ==
  \A p, q \in Plays :
    p # q => /\ handles[p].h # handles[q].h
             /\ PlayIndex(p) = PlayIndex(q) =>
                  HandleVersion(handles[p].h) # HandleVersion(handles[q].h)
\* a slot was played twice, and its version advanced at least twice (the
\* end of the first voice, the second allocation) between the two handles
C6Witness ==
  \E p, q \in Plays :
    /\ p < q /\ PlayIndex(p) = PlayIndex(q)
    /\ HandleVersion(handles[q].h) >= HandleVersion(handles[p].h) + 2 * MAX_PLAYING_SOUNDS

\* C7: once the voice of a handle h is gone, stop_sound, set_sound_pitch,
\* set_sound_volume, set_sound_pan and set_sound_play_pos on h leave the
\* voice table as it is, get_sound_play_pos(h) returns 0 and is_playing(h)
\* returns false, also when the slot holds a later play.
ControlOn(h) ==
  \/ stop_sound(h)
  \/ \E pitch \in SetPitches : set_sound_pitch(h, pitch)
  \/ \E volume \in SetVolumes : set_sound_volume(h, volume)
  \/ \E pan \in SetPans : set_sound_pan(h, pan)
  \/ \E t \in SetPosTimes : set_sound_play_pos(h, t)
C7Theorem ==
  /\ [][\A p \in Plays :
         (Gone(p) /\ ControlOn(handles[p].h)) => playing_sounds' = playing_sounds]_vars
  /\ [](\A p \in Plays :
         Gone(p) => get_sound_play_pos(handles[p].h) = 0 /\ ~is_playing(handles[p].h))
\* a control operation has just been given the handle of a voice that is
\* gone and whose slot holds a later play that is not stopped
C7Witness ==
  /\ lastOp.op \in { "stop_sound", "set_sound_pitch", "set_sound_volume",
                     "set_sound_pan", "set_sound_play_pos" }
  /\ \E p, q \in Plays :
       /\ p < q /\ lastOp.arg = handles[p].h /\ slotPlay[PlayIndex(p)] = q
       /\ playing_sounds[PlayIndex(p)].sound # Null

\* C14: at most MAX_PLAYING_SOUNDS - 1 slots, the slots 1 .. MAX_PLAYING_SOUNDS - 1,
\* are non-empty; a play with all of them non-empty returns the invalid
\* handle and changes no voice slot.
VoiceSlots == Slots \ { 0 }
TableFull == \A i \in VoiceSlots : ~isEmpty(playing_sounds[i])
C14Theorem ==
  /\ [](/\ Cardinality({ i \in Slots : ~isEmpty(playing_sounds[i]) }) <= MAX_PLAYING_SOUNDS - 1
        /\ { i \in Slots : ~isEmpty(playing_sounds[i]) } \subseteq VoiceSlots)
  /\ [][(TableFull /\ lastOp'.op = "play_sound") =>
          /\ lastOp'.arg = InvalidHandle
          /\ playing_sounds' = playing_sounds
          /\ handles' = handles /\ slotPlay' = slotPlay]_vars
\* a play has just been refused and every voice slot is in use
C14Witness ==
  /\ TableFull
  /\ lastOp = [ op |-> "play_sound", arg |-> InvalidHandle ]
  /\ Len(handles) >= MAX_PLAYING_SOUNDS - 1
  /\ \E a \in Assets : assets[a].alive /\ assets[a].samples >= MinPlayableSamples

\* C15: slot 0 is never allocated and stays as it was constructed, no play
\* returns a handle whose index is 0, and the handle 0 is not valid.
C15Theorem ==
  /\ playing_sounds[0] = EmptyVoice
  /\ slotPlay[0] = 0
  /\ \A p \in Plays : PlayIndex(p) # 0 /\ handles[p].h # InvalidHandle
  /\ ~is_handle_valid(InvalidHandle) /\ handle_to_index(InvalidHandle) < 0
\* every other slot has been played into and is in use, slot 0 is not
C15Witness ==
  /\ \A i \in VoiceSlots : slotPlay[i] # 0 /\ playing_sounds[i].sound # Null
  /\ isEmpty(playing_sounds[0]) /\ playing_sounds[0].version = 0

\* C18: after a = move(b) the destination owns the buffer b had and the
\* source is empty, with no buffer and no frames; a play of the source then
\* returns the invalid handle and takes no slot.
C18Claim ==
  [][/\ \A a, b \in Assets :
          (MoveAssign(a, b) /\ fault'.kind = "none") =>
             /\ assets'[a].data = assets[b].data
             /\ assets'[b].data = Null /\ assets'[b].samples = 0
     /\ \A a \in Assets, c \in PlayCalls :
          (/\ assets[a].data = Null
           /\ play_sound_internal(a, c[1], c[2], c[3], c[4], c[5], c[6], c[7])) =>
             /\ lastOp'.arg = InvalidHandle
             /\ \A i \in Slots : isEmpty(playing_sounds[i]) => isEmpty(playing_sounds'[i])]_vars

\* C19: a callback of n frames leaves n frames in the output buffer that do
\* not depend on what the buffer held: each frame is the sum of what the
\* voices add to it, and all 2n floats are 0 when the mixer is not
\* initialized or no voice slot is non-empty.
RECURSIVE C19Sum(_, _, _)
C19Sum(logs, k, slots) ==
  IF slots = {} THEN << 0, 0 >>
  ELSE LET i == CHOOSE j \in slots : TRUE
           rest == C19Sum(logs, k, slots \ { i })
       IN << rest[1] + logs[i][k].l, rest[2] + logs[i][k].r >>
Silence(n) == [k \in 1 .. n |-> << 0, 0 >>]
C19Step(n) ==
  /\ Len(out_buf') = n
  /\ ~device_initialized => out_buf' = Silence(n)
  /\ (\A i \in Slots : isEmpty(playing_sounds[i])) => out_buf' = Silence(n)
  /\ device_initialized =>
       LET logs == MixLog(n)
       IN \A k \in 1 .. n : out_buf'[k] = C19Sum(logs, k, Slots)
C19Theorem ==
  [][\A n \in CallbackSizes : framesOut' = framesOut + n => C19Step(n)]_vars
\* the callback of the last step found voices that had played all ended,
\* and left silence
C19Witness ==
  /\ Len(out_buf) > 1 /\ out_buf = Silence(Len(out_buf))
  /\ device_initialized /\ framesOut > Len(out_buf)
  /\ Len(handles) > 0 /\ \A i \in Slots : isEmpty(playing_sounds[i])

\* What C20 asks of the callback of n frames about voice i, when its
\* stop-fade reaches silence at frame k of a chunk: it adds nothing at that
\* frame, does nothing at the later frames of the chunk, and after the
\* callback it is empty with both gains 0.
C20Step(n) ==
  LET logs == MixLog(n)
  IN \A i \in Slots : \A k \in 1 .. n :
       logs[i][k].kind = "silence" =>
         /\ logs[i][k].l = 0 /\ logs[i][k].r = 0
         /\ \A j \in (k + 1) .. n : logs[i][j].kind \in { "none", "silence" }
         /\ isEmpty(playing_sounds'[i])
         /\ playing_sounds'[i].volumeL = 0 /\ playing_sounds'[i].volumeR = 0

\* C20: from the output sample at which a voice's stop-fade reaches silence
\* the voice is empty, adds nothing to that or any later sample of the chunk
\* and its gains stay 0, for mono voices as for stereo voices.
C20Claim ==
  [][\A n \in CallbackSizes :
       (framesOut' = framesOut + n /\ device_initialized /\ fault'.kind = "none")
         => C20Step(n)]_vars


\* this step is a play_sound whose allocate_playing_sound returned slot i
AllocatesSlot(i) == lastOp'.op = "play_sound" /\ allocate_playing_sound = i

\* this step runs setStopMode on voice i while it references an asset and
\* is not in stop-fade (by stop, stop_all, a deletion, a move, or the end of
\* the asset in a callback): setStopMode then clears the reference
StopsVoice(i) ==
  /\ playing_sounds[i].sound # Null /\ ~playing_sounds[i].stopMode
  /\ playing_sounds'[i].sound = Null

AdvanceOf(i) ==
  MAX_PLAYING_SOUNDS * ((IF AllocatesSlot(i) THEN 1 ELSE 0) + (IF StopsVoice(i) THEN 1 ELSE 0))

\* C21: every slot's version is a multiple of N (MAX_PLAYING_SOUNDS) and
\* never decreases; an allocation of the slot and an effective stop of its
\* voice advance it by exactly N, and no other step changes it.
C21Theorem ==
  /\ [](\A i \in Slots : /\ playing_sounds[i].version >= 0
                         /\ playing_sounds[i].version % MAX_PLAYING_SOUNDS = 0)
  /\ [][\A i \in Slots :
          playing_sounds'[i].version = playing_sounds[i].version + AdvanceOf(i)]_vars
\* a slot was allocated, its voice stopped, and the slot allocated again
C21Witness ==
  \E i \in Slots : /\ playing_sounds[i].version = 3 * MAX_PLAYING_SOUNDS
                   /\ playing_sounds[i].sound # Null

\* voice i waits for its deferred start
Waiting(i) == playing_sounds[i].waitingStart /\ playing_sounds[i].sound # Null

\* the voice did nothing that adds to the output
Silent(log) ==
  \A k \in 1 .. Len(log) :
    log[k].kind \in { "none", "wait" } /\ log[k].l = 0 /\ log[k].r = 0

\* what the callback of n frames does with the voices that wait before and
\* after it, and with the empty slots
C22Callback(n) ==
  LET logs == MixLog(n)
  IN \A i \in Slots :
       /\ (Waiting(i) /\ Waiting(i)') => Silent(logs[i])
       /\ isEmpty(playing_sounds[i]) => (Silent(logs[i]) /\ isEmpty(playing_sounds'[i]))

\* C22: stop(h) on a voice that still waits for its deferred start makes the
\* slot empty at once (not waiting, no asset, no stop-fade) and h invalid;
\* the voice added nothing to the output while it waited (only a play makes
\* a voice wait, and a callback that leaves it waiting adds nothing for it),
\* and the empty slot adds nothing afterwards.
C22Theorem ==
  /\ [][\A h \in HeldHandles :
          (stop_sound(h) /\ is_handle_valid(h) /\ Waiting(HandleIndex(h))) =>
             /\ fault'.kind = "none"
             /\ isEmpty(playing_sounds'[HandleIndex(h)])
             /\ ~playing_sounds'[HandleIndex(h)].stopMode
             /\ ~is_handle_valid(h)']_vars
  /\ [][\A i \in Slots : (~Waiting(i) /\ Waiting(i)') => AllocatesSlot(i)]_vars
  /\ [][\A n \in CallbackSizes :
          (framesOut' = framesOut + n /\ device_initialized /\ fault'.kind = "none")
            => C22Callback(n)]_vars
\* a voice waited through a callback and was then stopped
C22Witness ==
  /\ lastOp.op = "stop_sound" /\ framesOut > 0 /\ fault.kind = "none"
  /\ \E p \in Plays :
       /\ handles[p].h = lastOp.arg /\ handles[p].defer > 0 /\ handles[p].at < framesOut
       /\ slotPlay[PlayIndex(p)] = p
       /\ isEmpty(playing_sounds[PlayIndex(p)])
       /\ ~is_handle_valid(handles[p].h)
       /\ playing_sounds[PlayIndex(p)].timeToStart > 0

\* C23: when stop_all_sounds returns, no voice slot references an asset or
\* waits for its start, and every handle a play returned before the call is
\* invalid.
C23Theorem ==
  [][(stop_all_sounds /\ fault'.kind = "none") =>
       /\ \A i \in Slots : /\ playing_sounds'[i].sound = Null
                           /\ ~playing_sounds'[i].waitingStart
       /\ \A h \in HeldHandles : ~is_handle_valid(h)']_vars
\* stop_all_sounds has stopped a playing voice and a waiting voice at once
C23Witness ==
  /\ fault.kind = "none" /\ Len(handles) >= 2
  /\ \A h \in HeldHandles : ~is_handle_valid(h)
  /\ \A i \in Slots : playing_sounds[i].sound = Null /\ ~playing_sounds[i].waitingStart
  /\ \E i \in Slots : fade[i].cause = "stop_all_sounds"
  /\ \E p \in Plays :
       /\ handles[p].defer > 0 /\ slotPlay[PlayIndex(p)] = p
       /\ playing_sounds[PlayIndex(p)].timeToStart > 0
       /\ playing_sounds[PlayIndex(p)].version = 2 * MAX_PLAYING_SOUNDS
  /\ \A a \in Assets : assets[a].data # Null => heap[assets[a].data].state = "live"

\* voice i plays or waits to play, and loops
Looping(i) ==
  playing_sounds[i].loop /\ playing_sounds[i].sound # Null /\ ~playing_sounds[i].stopMode

\* where the voice reads next after it read at pos
C24NextPos(v, pos) ==
  IF pos + Advance(v) >= v.stopPos THEN v.startPos ELSE pos + Advance(v)

\* what the callback of n frames does with a looping voice (mixTo returns
\* at once, line 225, for a voice whose asset has no buffer)
C24Callback(n) ==
  LET logs == MixLog(n)
  IN \A i \in Slots :
       Looping(i) =>
         /\ Looping(i)'
         /\ playing_sounds'[i].sound = playing_sounds[i].sound
         /\ playing_sounds'[i].version = playing_sounds[i].version
         /\ IF assets[playing_sounds[i].sound].data = Null
              THEN playing_sounds'[i] = playing_sounds[i]
              ELSE \A k \in 1 .. n : logs[i][k].kind \in { "play", "wait" }
         /\ \A k \in 1 .. (n - 1) :
              (logs[i][k].kind = "play") =>
                /\ logs[i][k + 1].kind = "play"
                /\ logs[i][k + 1].pos = C24NextPos(playing_sounds[i], logs[i][k].pos)
         /\ logs[i][n].kind = "play" =>
              playing_sounds'[i].pos = C24NextPos(playing_sounds[i], logs[i][n].pos)

\* the steps that may end the voice of the handle h, which plays asset a
C24Ends(h, a) ==
  \/ lastOp' = [ op |-> "stop_sound", arg |-> h ]
  \/ stop_all_sounds
  \/ delete_sound(a) \/ Destroy(a)
  \/ \E b \in Assets : MoveAssign(a, b) \/ MoveAssign(b, a)

\* C24: a looping voice never enters stop-fade through mixing: each time
\* pos reaches or passes stopPos it is set back to startPos, the voice keeps
\* its asset, and its handle stays valid until stop, stop_all, or a
\* deletion or move of its asset.
C24Theorem ==
  /\ [][\A n \in CallbackSizes :
          (framesOut' = framesOut + n /\ device_initialized /\ fault'.kind = "none")
            => C24Callback(n)]_vars
  /\ [][\A p \in Plays :
          (/\ is_handle_valid(handles[p].h) /\ Looping(PlayIndex(p))
           /\ fault'.kind = "none"
           /\ ~(is_handle_valid(handles[p].h) /\ Looping(PlayIndex(p)))')
            => C24Ends(handles[p].h, handles[p].sound)]_vars
\* a looping voice has played more frames than its asset has and goes on
C24Witness ==
  \E p \in Plays :
    /\ is_handle_valid(handles[p].h) /\ Looping(PlayIndex(p))
    /\ handles[p].defer = 0
    /\ framesOut - handles[p].at > assets[handles[p].sound].samples
    /\ playing_sounds[PlayIndex(p)].pos < playing_sounds[PlayIndex(p)].stopPos
    /\ fault.kind = "none"

\* C32: a play that fails (no free slot, or an asset of fewer than 3
\* frames) leaves every voice slot as it was, its version included.
C32Claim ==
  [][(lastOp'.op = "play_sound" /\ lastOp'.arg = InvalidHandle)
        => playing_sounds' = playing_sounds]_vars

\* the handle values the model asks about: every index with the versions
\* 0, N, 2N and 3N
HandleValues == 0 .. (4 * MAX_PLAYING_SOUNDS - 1)

\* C34: for every handle value h, the values that no play returned
\* included, is_playing(h) is true only if slot h mod N holds a voice that
\* references an asset and is not in stop-fade.
C34Claim ==
  \A h \in HandleValues :
    is_playing(h) =>
      /\ playing_sounds[HandleIndex(h)].sound # Null
      /\ ~playing_sounds[HandleIndex(h)].stopMode

\* the assets that hold buffer b, and the buffers that assets hold
OwnersOf(b) == { a \in Assets : assets[a].alive /\ assets[a].data = b }
OwnedBuffers == { b \in Buffers : OwnersOf(b) # {} }

\* C35: in every reachable state the registry is the set of the buffers
\* that assets own: every allocated buffer is owned by exactly one asset and
\* is in the registry, and the registry holds no buffer that no asset owns.
C35Claim ==
  /\ sound_data_pointers = OwnedBuffers
  /\ \A b \in Buffers :
       heap[b].state = "live" => (Cardinality(OwnersOf(b)) = 1 /\ b \in sound_data_pointers)

\* C36: no sample buffer is freed more than once: after
\* delete_allocated_sounds has freed the registered buffers, a later delete
\* or destruction of an asset that owned one of them does not free it again.
C36Claim == ~(fault.kind = "doublefree")

\* C38: creating an asset from a mono or stereo array of k frames reads the
\* input frames 0 .. k-1 only: no read of the input uses an index >= k.
C38Claim == ~(fault.kind = "oob" /\ fault.site = "memcpy")

\* C12: the two counters never decrease, whatever the frame count of the
\* callback.
C12Claim ==
  [][/\ total_samples_played' >= total_samples_played
     /\ total_time_played' >= total_time_played]_vars

\* ------------------------------------------------ callbacks of device size
\* One caller that creates, plays and stops, and callbacks of the sizes a
\* device asks for: less than one chunk of STEP frames, one chunk and a
\* part of one, and nine chunks.
FadeInputs == { << 1, 1, 1 >> }
FadeCallbackSizes == { 100, STEP + 44, 9 * STEP }
\* deferred starts inside the first chunk, inside the second, and at the
\* start of the third
FadeDeferTicks == 50
FadeDeferLong == STEP + 44
FadeDeferChunks == 2 * STEP
FadePlayCalls ==
  { << ParamUnit, PitchUnit, 0, 0, VERY_BIG_NUMBER, FALSE, 0 >>,
    << ParamUnit, PitchUnit, 0, 0, VERY_BIG_NUMBER, FALSE, FadeDeferTicks >>,
    << ParamUnit, PitchUnit, 0, 0, VERY_BIG_NUMBER, FALSE, FadeDeferLong >>,
    << ParamUnit, PitchUnit, 0, 0, VERY_BIG_NUMBER, FALSE, FadeDeferChunks >> }

TickFade == steps < MaxFadeSteps /\ steps' = steps + 1 /\ UNCHANGED threadVars

NextFade ==
  \/ \E a \in Assets, f \in Frequencies, input \in FadeInputs :
       TickFade /\ create_sound(a, f, input, TRUE)
  \/ \E a \in Assets, c \in FadePlayCalls :
       TickFade /\ play_sound_internal(a, c[1], c[2], c[3], c[4], c[5], c[6], c[7])
  \/ \E h \in HeldHandles : TickFade /\ stop_sound(h)
  \/ \E n \in FadeCallbackSizes, stale \in StaleFloats :
       TickFade /\ AudioCallback(n, DeviceBuffer(n, stale))

SpecFade == Init /\ [][NextFade]_vars

\* C1: a voice that was playing when stop_sound stopped it has faded out,
\* left stop-fade and freed its slot by the time the callbacks that followed
\* the stop have produced FadeCap frames (the fade from unit gain takes
\* less).
C1Claim ==
  \A i \in Slots : fade[i].cause = "stop_sound" => fade[i].frames < FadeCap

\* C2: a voice that went into stop-fade because its pos reached stopPos in
\* a callback has left stop-fade and freed its slot by the time the
\* callbacks that followed have produced FadeCap frames.
C2Claim ==
  \A i \in Slots : fade[i].cause = "end" => fade[i].frames < FadeCap

\* the stop-fade step from the gains (l, r) to the gains of the event b,
\* with the trends tl and tr of the voice
C26FadeStep(l, r, tl, tr, b) ==
  /\ b.kind \in { "fade", "silence" }
  /\ b.l = FadeGain(l, tl) /\ b.r = FadeGain(r, tr)
  /\ l # 0 => (tl = -sign(l) * StopTrend /\ Abs(b.l) < Abs(l) /\ sign(b.l) \in { 0, sign(l) })
  /\ r # 0 => (tr = -sign(r) * StopTrend /\ Abs(b.r) < Abs(r) /\ sign(b.r) \in { 0, sign(r) })
  /\ b.kind = "silence" <=> (b.l = 0 /\ b.r = 0)

\* what C26 asks of the callback of n frames: a voice that is in stop-fade
\* when the callback starts takes a stop-fade step at the first frame, and a
\* voice that took one at frame k and is not silent takes one at frame k + 1
C26Callback(n) ==
  LET logs == MixLog(n)
  IN \A i \in Slots :
       LET v == playing_sounds[i]
           w == playing_sounds'[i]
       IN /\ v.stopMode =>
               C26FadeStep(v.volumeL, v.volumeR, v.volumeTrendL, v.volumeTrendR, logs[i][1])
          /\ \A k \in 1 .. (n - 1) :
               logs[i][k].kind = "fade" =>
                 C26FadeStep(logs[i][k].l, logs[i][k].r, w.volumeTrendL, w.volumeTrendR,
                             logs[i][k + 1])

\* C26: while a voice is in stop-fade each mixed output sample snaps a
\* channel gain of magnitude <= 1/512 to 0 or replaces it by
\* (gain + trend) * 0.997 with trend = -sign(gain) / 10000; the magnitude
\* strictly decreases and the sign never flips, so that both gains reach 0
\* after a bounded number of mixed samples.
C26Claim ==
  [][\A n \in FadeCallbackSizes :
       (framesOut' = framesOut + n /\ device_initialized /\ fault'.kind = "none")
         => C26Callback(n)]_vars

\* the calls of mixTo that a callback of n frames makes when it starts in
\* this state
FillCalls(n) == fill_buffer_cb(DeviceBuffer(n, 0), n).calls
CallsOf(calls, i) == SelectSeq(calls, LAMBDA c : c.slot = i)

\* consecutive chunks of min(remaining, STEP) frames that cover n frames
C29Chunks(n) ==
  [k \in 1 .. ((n + STEP - 1) \div STEP) |->
     [ from |-> (k - 1) * STEP, count |-> Min(n - (k - 1) * STEP, STEP) ]]

\* what C29 asks of the callback of n frames: the calls for a slot are the
\* chunks in their order, none for an empty slot, all of them for a voice
\* that is not empty when the callback ends (a voice that becomes empty in
\* a chunk is not called for the chunks after it), and no call goes beyond
\* frame n - 1 of the buffer of n frames
C29Callback(n) ==
  LET calls == FillCalls(n)
      chunks == C29Chunks(n)
  IN /\ Len(out_buf') = n
     /\ \A i \in Slots :
          LET mine == CallsOf(calls, i)
          IN /\ Len(mine) <= Len(chunks)
             /\ \A k \in 1 .. Len(mine) :
                  /\ mine[k].from = chunks[k].from /\ mine[k].count = chunks[k].count
                  /\ mine[k].from >= 0 /\ mine[k].from + mine[k].count <= n
             /\ isEmpty(playing_sounds[i]) <=> Len(mine) = 0
             /\ ~isEmpty(playing_sounds'[i]) => Len(mine) = Len(chunks)

\* C29: for any frame count n > 0 the callback calls the mix routine of each
\* non-empty voice on consecutive chunks of min(remaining, 256) frames that
\* together cover the output frames 0 .. n-1 exactly once, and never writes
\* past frame n-1 of the output buffer.
C29Theorem ==
  [][\A n \in FadeCallbackSizes :
       (framesOut' = framesOut + n /\ device_initialized /\ fault'.kind = "none")
         => C29Callback(n)]_vars
\* one callback of a chunk and 44 frames has mixed a voice that is still
\* not empty
C29Witness ==
  /\ framesOut = STEP + 44 /\ Len(out_buf) = STEP + 44
  /\ \E i \in Slots : ~isEmpty(playing_sounds[i]) /\ slotPlay[i] # 0
  /\ fault.kind = "none"

\* C30: a callback of n output frames advances total_samples_played by
\* exactly n and total_time_played by n / out_frequency (n ticks), for every
\* n > 0, multiple of 256 or not.
C30Claim ==
  [][\A n \in FadeCallbackSizes :
       (framesOut' = framesOut + n /\ device_initialized /\ fault'.kind = "none") =>
          /\ total_samples_played' = total_samples_played + n
          /\ total_time_played' = total_time_played + n]_vars

\* C13: a voice played with a deferred start of d output frames adds nothing
\* to the output frames 0 .. d - 1 that follow the play, and the frame d is
\* the first it mixes, read at startPos; for callbacks shorter than a chunk
\* and of many chunks, and for d inside the first chunk and beyond it.
C13Step(n) ==
  LET logs == MixLog(n)
  IN \A p \in Plays :
       LET i == PlayIndex(p)
           d == handles[p].defer
       IN (~Gone(p) /\ d > 0) =>
            \A k \in 1 .. n :
              LET g == framesOut + (k - 1) - handles[p].at
                  ev == logs[i][k]
              IN /\ g < d => (ev.kind \in { "none", "wait" } /\ ev.l = 0 /\ ev.r = 0)
                 /\ g = d => (ev.kind = "play" /\ ev.pos = playing_sounds[i].startPos)
PitchValues == { -PitchUnit, 0, 3 * PitchUnit }
\* times before the asset, inside it (one frame at 48 kHz) and beyond it
PosTimes == SetPosTimes \cup { OUTPUT_SAMPLE_RATE \div 48000 }
NextPitch ==
  \/ \E a \in Assets, f \in Frequencies, input \in MonoInputs \cup StereoInputs :
       Tick /\ IF input \in MonoInputs THEN create_sound(a, f, input, TRUE)
               ELSE create_sound_stereo(a, f, input, TRUE)
  \/ \E a \in Assets, c \in PlayCalls :
       Tick /\ play_sound_internal(a, c[1], c[2], c[3], c[4], c[5], c[6], c[7])
  \/ \E h \in HeldHandles, pitch \in PitchValues : Tick /\ set_sound_pitch(h, pitch)
  \/ \E h \in HeldHandles, t \in PosTimes : Tick /\ set_sound_play_pos(h, t)
  \/ \E n \in CallbackSizes, stale \in StaleFloats :
       Tick /\ AudioCallback(n, DeviceBuffer(n, stale))

SpecPitch == Init /\ [][NextPitch]_vars

\* C10: no read of the mix routine or of setStopMode is outside the buffer
\* of the voice's asset.
C10Claim == ~(fault.site = "voice" /\ fault.kind = "oob")

\* C16: set_sound_play_pos(h, t) on the valid handle of a voice that is not
\* stopped sets pos to floor(t * frequency) brought into startPos .. stopPos
\* (startPos for t = -5 s, stopPos for a t beyond the asset) and changes
\* nothing else of the voice table; on a stale handle, and so on the handle
\* of a voice in stop-fade or of an empty slot, it changes nothing.
C16Frames(a, t) == FloorDiv(t, RateDiv(assets[a].frequency))
C16Pos(v, t) ==
  IF C16Frames(v.sound, t) <= FloorDiv(v.startPos, PosUnit) THEN v.startPos
  ELSE IF C16Frames(v.sound, t) >= FloorDiv(v.stopPos, PosUnit) THEN v.stopPos
  ELSE C16Frames(v.sound, t) * PosUnit
C16Step(h, t) ==
  LET i == HandleIndex(h)
      v == playing_sounds[i]
  IN IF is_handle_valid(h) /\ v.sound # Null /\ ~v.stopMode
       THEN /\ playing_sounds' = [playing_sounds EXCEPT ![i].pos = C16Pos(v, t)]
            /\ v.startPos <= playing_sounds'[i].pos /\ playing_sounds'[i].pos <= v.stopPos
            /\ t < 0 => playing_sounds'[i].pos = v.startPos
            /\ t = VERY_BIG_NUMBER => playing_sounds'[i].pos = v.stopPos
       ELSE playing_sounds' = playing_sounds
C16Theorem ==
  [][\A h \in HeldHandles, t \in PosTimes :
       (set_sound_play_pos(h, t) /\ fault'.kind = "none") => C16Step(h, t)]_vars
\* set_sound_play_pos has just moved a playing voice, whose window is longer
\* than one frame, to its stopPos
C16Witness ==
  /\ lastOp.op = "set_sound_play_pos" /\ is_handle_valid(lastOp.arg)
  /\ LET v == playing_sounds[HandleIndex(lastOp.arg)]
     IN /\ v.sound # Null /\ ~v.stopMode /\ ~v.waitingStart
        /\ v.pos = v.stopPos /\ v.stopPos > v.startPos + PosUnit

\* ------------------------------------------------------ the sample data
\* One caller that creates assets and overwrites their samples with arrays
\* that are empty, shorter than the asset, and longer
DataInputs == { << >>, << 2 >>, << 3, 2, 2, 2 >> }
DataInputsStereo == { << >>, << 2, 0 >>, << 3, 3, 1, 3, 2, 2, 0, 0 >> }
NextData ==
  \/ \E a \in Assets, f \in Frequencies, input \in MonoInputs :
       Tick /\ create_sound(a, f, input, TRUE)
  \/ \E a \in Assets, f \in Frequencies, input \in StereoInputs :
       Tick /\ create_sound_stereo(a, f, input, TRUE)
  \/ \E a \in Assets, in_data \in DataInputs : Tick /\ set_sound_data(a, in_data)
  \/ \E a \in Assets, in_data \in DataInputsStereo : Tick /\ set_sound_data_stereo(a, in_data)

SpecData == Init /\ [][NextData]_vars

\* C17: every asset that has a buffer holds at frame index `samples' a copy
\* of its frame 0, of both channels when it is stereo, after any creations
\* and any set_sound_data / set_sound_data_stereo with arrays of any length.
C17Theorem ==
  \A a \in Assets :
    (assets[a].alive /\ assets[a].data # Null) =>
      LET mem == heap[assets[a].data].mem
          n == assets[a].samples
      IN IF assets[a].channels = 1
           THEN Len(mem) = n + 1 /\ mem[n + 1] = mem[1]
           ELSE /\ Len(mem) = 2 * n + 2
                /\ mem[2 * n + 1] = mem[1] /\ mem[2 * n + 2] = mem[2]
\* a set operation has just replaced frame 0 of an asset (no asset is
\* created with a 3 there) and another asset has a buffer too
C17Witness ==
  /\ lastOp.op \in { "set_sound_data", "set_sound_data_stereo" }
  /\ heap[assets[lastOp.arg].data].state = "live"
  /\ heap[assets[lastOp.arg].data].mem[1] = 3
  /\ \A a \in Assets : assets[a].data # Null

\* ------------------------------------------------- the arguments of play
\* One caller that plays with any volume, pan, start time and end time
PlayFrequencies == { OUTPUT_SAMPLE_RATE, OUTPUT_SAMPLE_RATE \div 2 }
\* below the clamp, inside it, above 1.0f
PlayVolumes == { -ParamUnit, ParamUnit \div 2, 3 * ParamUnit }
\* outside the clamp on both sides, left, centre, right
PlayPans == { -2 * ParamUnit, -(ParamUnit \div 2), 0, ParamUnit, 2 * ParamUnit }
\* times before the asset, inside it and beyond its end, in ticks
PlayTimes == { -3, 1, 3, VERY_BIG_NUMBER }
\* three frames of one channel, three frames of two
PlayInputs == { << 1, 1, 0 >>, << 1, -1, 1, -1, 1, -1 >> }
PlayCallbackSizes == { 2, 4 }
\* a negative defer_seconds: the voice starts as if it had played one tick
PlayDefers == { -1 }
PlayArgCalls ==
  { << v, PitchUnit, p, 0, VERY_BIG_NUMBER, FALSE, 0 >> : v \in PlayVolumes, p \in PlayPans }
    \cup { << ParamUnit, PitchUnit, 0, s, e, FALSE, 0 >> : s \in PlayTimes, e \in PlayTimes }
    \cup { << ParamUnit, PitchUnit, 0, s, VERY_BIG_NUMBER, FALSE, d >> :
             s \in PlayTimes, d \in PlayDefers }

TickPlay == steps < MaxPlaySteps /\ steps' = steps + 1 /\ UNCHANGED threadVars

NextPlay ==
  \/ \E a \in Assets, f \in PlayFrequencies, input \in PlayInputs :
       TickPlay /\ IF Len(input) = 3 THEN create_sound(a, f, input, TRUE)
               ELSE create_sound_stereo(a, f, input, TRUE)
  \/ \E volume \in MasterVolumes : TickPlay /\ set_master_volume(volume)
  \/ \E a \in Assets, c \in PlayArgCalls :
       TickPlay /\ play_sound_internal(a, c[1], c[2], c[3], c[4], c[5], c[6], c[7])
  \/ \E n \in PlayCallbackSizes, stale \in StaleFloats :
       TickPlay /\ AudioCallback(n, DeviceBuffer(n, stale))

SpecPlay == Init /\ [][NextPlay]_vars

\* what play leaves in the slot of the handle it returned, for the call c
C27Play(c) ==
  LET v == playing_sounds'[HandleIndex(lastOp'.arg)]
      volume == clamp(c[1], 0, VolumeMax)
      pan == clamp(c[3], -ParamUnit, ParamUnit)
      unit == GainUnit \div (ParamUnit * ParamUnit * ParamUnit)
  IN /\ v.volume = volume /\ v.pan = pan
     /\ v.volumeL = master_volume * volume * Min(ParamUnit + pan, ParamUnit) * unit
     /\ v.volumeR = master_volume * volume * Min(ParamUnit - pan, ParamUnit) * unit
     /\ v.volumeL = wishVolumeL(v, master_volume')
     /\ v.volumeR = wishVolumeR(v, master_volume')

\* what the callback of n frames does with the voice the last operation
\* played: every sample it adds has the gains the play left, and a voice that
\* still plays after the callback has them too
C27Callback(n) ==
  LET i == HandleIndex(lastOp.arg)
      v == playing_sounds[i]
      log == MixLog(n)[i]
  IN /\ \A k \in 1 .. n :
          log[k].kind = "play" => log[k] = PlayEvent(v, v.sound, log[k].pos)
     /\ (~playing_sounds'[i].stopMode /\ playing_sounds'[i].sound # Null) =>
          /\ playing_sounds'[i].volumeL = v.volumeL
          /\ playing_sounds'[i].volumeR = v.volumeR

\* C27: right after a successful play the gains of the voice are
\* master_volume * volume * min(1 + pan, 1) and master_volume * volume *
\* min(1 - pan, 1) for the clamped volume and pan, which are the targets the
\* mix routine computes, so the first callback applies no gain ramp.
C27Theorem ==
  /\ [][\A a \in Assets, c \in PlayArgCalls :
          (/\ lastOp'.op = "play_sound" /\ lastOp'.arg # InvalidHandle
           /\ playing_sounds'[HandleIndex(lastOp'.arg)].sound = a
           /\ play_sound_internal(a, c[1], c[2], c[3], c[4], c[5], c[6], c[7]))
            => C27Play(c)]_vars
  /\ [][\A n \in PlayCallbackSizes :
          (/\ lastOp.op = "play_sound" /\ lastOp.arg # InvalidHandle
           /\ framesOut' = framesOut + n /\ device_initialized /\ fault'.kind = "none")
            => C27Callback(n)]_vars
\* a play at half the master volume with the pan at its right end: the left
\* gain is 1.5 and the right gain 0
C27Witness ==
  /\ lastOp.op = "play_sound" /\ lastOp.arg # InvalidHandle
  /\ master_volume = ParamUnit \div 2
  /\ LET v == playing_sounds[HandleIndex(lastOp.arg)]
     IN /\ v.volume = 3 * ParamUnit /\ v.pan = ParamUnit
        /\ v.volumeL = 3 * (GainUnit \div 2) /\ v.volumeR = 0

\* C28: after any successful play the voice has 0 <= startPos <= stopPos <=
\* samples - 1, whatever start_time and end_time were: negative, reversed
\* or beyond the end of the asset.
C28Theorem ==
  [][\A a \in Assets, c \in PlayArgCalls :
       (/\ lastOp'.op = "play_sound" /\ lastOp'.arg # InvalidHandle
        /\ handles'[Len(handles')].sound = a
        /\ play_sound_internal(a, c[1], c[2], c[3], c[4], c[5], c[6], c[7])) =>
          LET v == playing_sounds'[HandleIndex(lastOp'.arg)]
          IN /\ v.sound = a
             /\ 0 <= v.startPos /\ v.startPos <= v.stopPos
             /\ v.stopPos <= (assets'[a].samples - 1) * PosUnit]_vars
\* a play whose end_time is not after its start_time, inside the asset: the
\* voice starts and stops at frame 1
C28Witness ==
  /\ lastOp.op = "play_sound" /\ lastOp.arg # InvalidHandle
  /\ LET v == playing_sounds[HandleIndex(lastOp.arg)]
     IN /\ v.startPos = PosUnit /\ v.stopPos = PosUnit
        /\ assets[v.sound].samples = 3

\* C33: every voice that references an asset has startPos <= pos <= stopPos
\* after every control operation and every callback, the voices started
\* with a negative defer_seconds and a start_time other than 0 included.
C33Claim ==
  \A i \in Slots :
    playing_sounds[i].sound # Null =>
      /\ playing_sounds[i].startPos <= playing_sounds[i].pos
      /\ playing_sounds[i].pos <= playing_sounds[i].stopPos

\* ---------------------------------------------- gains in float arithmetic
\* volumeL, volumeR and their targets are C floats (IEEE-754 binary32: 24
\* bits of significand, round to nearest, ties to even).  This part follows
\* one channel gain of one voice through the general path of mixTo with the
\* rounding of every float operation.  A float is counted in units of
\* 1/FloatUnit; below 2^SignificandBits units every whole number of units
\* is a float, above that only the multiples of FloatUlp are.
FloatUnit == 2 * 512                       \* 1.0f
FloatStep == FloatUnit \div 512            \* ONE_DIV_512
SignificandBits == 24
MaxRamp == 8         \* operations and mixed samples of one behaviour

\* the distance between the floats next to a value of magnitude a
RECURSIVE FloatUlp(_)
FloatUlp(a) == IF a < 2 ^ SignificandBits THEN 1 ELSE 2 * FloatUlp(a \div 2)

\* the float nearest to the exact result x of an operation
RoundToFloat(x) ==
  LET a == Abs(x)
      u == FloatUlp(a)
      lo == (a \div u) * u
      near == IF 2 * (a - lo) < u THEN lo
              ELSE IF 2 * (a - lo) > u THEN lo + u
              ELSE IF (lo \div u) % 2 = 0 THEN lo ELSE lo + u
  IN IF x < 0 THEN -near ELSE near

\* lines 292-300 (302-310, 373-391): one step of the gain towards its
\* target, in float arithmetic
NudgeGainFloat(g, wish) ==
  IF g = wish THEN g
  ELSE IF Abs(RoundToFloat(g - wish)) <= FloatStep THEN wish
  ELSE IF g < wish THEN RoundToFloat(g + FloatStep)
  ELSE RoundToFloat(g - FloatStep)

\* gains and targets of the model: 0, the smallest step, 1.0f, a value off
\* the 1/512 grid, values around 32768.0f and 100000.0f
GainValues ==
  { 0, FloatStep, FloatUnit, FloatUnit + 3,
    32768 * FloatUnit - 4, 32768 * FloatUnit, 32768 * FloatUnit + 8,
    100000 * FloatUnit - 8, 100000 * FloatUnit }

\* ceil(gap * 512) for a gap in units
RampLength(gap) == (gap + FloatStep - 1) \div FloatStep

TickGain ==
  /\ steps < MaxRamp /\ steps' = steps + 1
  /\ UNCHANGED << assetVars, counterVars, playVars, voiceVars, mixerVars, fault,
                  lastOp, out_buf, threadVars, chunk >>

\* set_sound_volume, set_sound_pan or set_master_volume gives the gain the
\* target w (lines 222-223)
GainRetarget(w) ==
  ramp' = [ g |-> ramp.g, wish |-> w, left |-> RampLength(Abs(ramp.g - w)) ]

\* one output sample of the general path
GainSample ==
  ramp' = [ g |-> NudgeGainFloat(ramp.g, ramp.wish), wish |-> ramp.wish,
            left |-> Max(ramp.left - 1, 0) ]

\* a voice right after a play: its gain is its target (lines 842-843)
InitGain ==
  /\ InitProgram /\ chunk = NoChunk
  /\ ramp \in { [ g |-> g, wish |-> g, left |-> 0 ] : g \in GainValues }

NextGain ==
  \/ \E w \in GainValues : TickGain /\ GainRetarget(w)
  \/ TickGain /\ GainSample

SpecGain == InitGain /\ [][NextGain]_vars

\* C25: each mixed sample of the general path moves the gain toward its
\* target by min(gap, 1/512) and never past it; after the target changed,
\* the gain equals the new target after at most ceil(gap * 512) mixed
\* samples, and then stays equal to it.
C25Claim ==
  /\ [][GainSample =>
          /\ Abs(ramp'.g - ramp.wish)
               = Abs(ramp.g - ramp.wish) - Min(Abs(ramp.g - ramp.wish), FloatStep)
          /\ sign(ramp'.g - ramp.wish) \in { 0, sign(ramp.g - ramp.wish) }]_vars
  /\ [](ramp.left = 0 => ramp.g = ramp.wish)

\* ----------------------------------------- positions in double arithmetic
\* pos, startPos, stopPos and advance are C doubles (IEEE-754 binary64: 53
\* bits of significand, round to nearest, ties to even).  This part follows
\* the position of one voice through one call of mixTo, once as the loop of
\* the fast path moves it and once as the loop of the general path does,
\* with the rounding of every double operation.  A double is counted in
\* units of 2^-PosFracBits and written as three limbs of LimbBits bits,
\* lowest first; every number of the model is below 2^60 units.
LimbBits == 20
Limb == 2 ^ LimbBits
PosFracBits == 51
DoubleBits == 53

\* a + b, and a * k for a whole k of at most nine bits, exactly
BigAdd(a, b) ==
  LET s0 == a[1] + b[1]
      s1 == a[2] + b[2] + (s0 \div Limb)
  IN << s0 % Limb, s1 % Limb, a[3] + b[3] + (s1 \div Limb) >>
BigTimes(a, k) ==
  LET p0 == a[1] * k
      p1 == a[2] * k + (p0 \div Limb)
  IN << p0 % Limb, p1 % Limb, a[3] * k + (p1 \div Limb) >>
BigLess(a, b) ==
  \/ a[3] < b[3]
  \/ a[3] = b[3] /\ a[2] < b[2]
  \/ a[3] = b[3] /\ a[2] = b[2] /\ a[1] < b[1]

\* the number of bits of x
RECURSIVE BitLen(_)
BitLen(x) == IF x = 0 THEN 0 ELSE 1 + BitLen(x \div 2)

\* the distance between neighbouring doubles at a, in units
DoubleUlp(a) ==
  LET bits == 2 * LimbBits + BitLen(a[3])
  IN IF bits <= DoubleBits THEN 1 ELSE 2 ^ (bits - DoubleBits)

\* the double nearest to the exact value a, ties to even
RoundToDouble(a) ==
  LET u == DoubleUlp(a)
      q == a[1] \div u
      r == a[1] % u
      up == 2 * r > u \/ (2 * r = u /\ q % 2 = 1)
  IN BigAdd(<< 0, a[2], a[3] >>, << (IF up THEN q + 1 ELSE q) * u, 0, 0 >>)

\* the double operations a + b and a * k
DoubleAdd(a, b) == RoundToDouble(BigAdd(a, b))
DoubleTimes(a, k) == RoundToDouble(BigTimes(a, k))
\* the whole number n as a double
DoubleOf(n) == << 0, 0, n * 2 ^ (PosFracBits - 2 * LimbBits) >>

\* advance = double(sound->frequency) * inv_frequency * pitch (line 228) as
\* the doubles it is for an asset of 48000 Hz at pitch 1 and at pitch 0.5
\* (1.0 and 0.5) and for an asset of 44100 Hz at pitch 3
\* (0x40060CCCCCCCCCCC, one place below 2.75625)
PosAdvances == { DoubleOf(1), << 0, 0, 1024 >>, << 838860, 838860, 5644 >> }
\* the frame counts of the chunk
PosCounts == { 4, 160 }
\* stopPos: the last frame of an asset of 4 and of 442 frames
PosStops == { DoubleOf(3), DoubleOf(441) }

\* line 230-232, the part of the fast-path condition that is about pos
FastPathPos(pos, advance, count, stopPos) ==
  BigLess(DoubleAdd(pos, DoubleTimes(advance, count)), stopPos)

\* lines 236-243 (249-257): one turn of the loop of the fast path
FastSample(c) == [c EXCEPT !.posFast = DoubleAdd(c.posFast, c.advance)]

\* lines 312-322: one turn of the loop of the general path for a voice that
\* plays; a voice in stop-fade keeps its pos
GeneralSample(c) ==
  IF c.stopMode THEN c
  ELSE LET pos == DoubleAdd(c.pos, c.advance)
       IN IF BigLess(pos, c.stopPos) THEN [c EXCEPT !.pos = pos]
          ELSE IF c.loop THEN [c EXCEPT !.pos = c.startPos]
          ELSE [c EXCEPT !.pos = c.stopPos, !.stopMode = TRUE]

TickChunk ==
  /\ steps < MaxChunkSteps /\ steps' = steps + 1
  /\ UNCHANGED << assetVars, counterVars, playVars, voiceVars, mixerVars, fault,
                  lastOp, out_buf, threadVars, ramp >>

\* mixTo is called for a voice that plays from startPos with gains at their
\* targets
StartChunk(advance, count, stopPos, loop) ==
  /\ chunk = NoChunk
  /\ chunk' = [ count |-> count, i |-> 0, advance |-> advance, loop |-> loop,
                startPos |-> DoubleOf(0), stopPos |-> stopPos,
                fast |-> FastPathPos(DoubleOf(0), advance, count, stopPos),
                posFast |-> DoubleOf(0), pos |-> DoubleOf(0), stopMode |-> FALSE ]

\* one output sample of the chunk in both loops
ChunkSample ==
  /\ chunk # NoChunk /\ chunk.i < chunk.count
  /\ chunk' = [GeneralSample(FastSample(chunk)) EXCEPT !.i = @ + 1]

NextChunk ==
  \/ \E a \in PosAdvances, n \in PosCounts, s \in PosStops, l \in BOOLEAN :
       TickChunk /\ StartChunk(a, n, s, l)
  \/ TickChunk /\ ChunkSample

SpecChunk == Init /\ [][NextChunk]_vars

\* C31: whenever the fast-path condition holds for a chunk, the fast path
\* leaves the voice as the general per-sample path would leave it from the
\* same state: the same pos, and not in stop-fade (its flags, version and
\* asset reference as before).
C31Claim ==
  (chunk # NoChunk /\ chunk.i = chunk.count /\ chunk.fast) =>
     (chunk.posFast = chunk.pos /\ ~chunk.stopMode)

\* ------------------------------------------------------------- threads
\* The callers and the audio thread run concurrently.  A control call is
\* WinAutoLock's constructor, the body of the call, and WinAutoLock's
\* destructor; the body is one step.  A callback is the lock, one step per
\* chunk of STEP frames, and the unlock.

\* sf::Mutex is recursive
CanLock(t) == sound_cs.owner \in { NoThread, t }
LockBy(t) == [ owner |-> t, count |-> sound_cs.count + 1 ]
Released == IF sound_cs.count <= 1 THEN Unlocked ELSE [sound_cs EXCEPT !.count = @ - 1]
\* unlock() by the owner releases one level.  unlock() by a thread that
\* does not own the mutex is an error of the caller: a pthread recursive
\* mutex refuses it and stays as it is, a Windows critical section gives up
\* one level of whoever holds it.
UnlockBy(t) ==
  IF sound_cs.owner = t THEN { Released }
  ELSE IF sound_cs.owner = NoThread THEN { sound_cs }
  ELSE { sound_cs, Released }

programVars ==
  << assetVars, counterVars, playVars, voiceVars, mixerVars, fault, lastOp, out_buf, ramp, chunk >>
Started == steps < MaxCalls /\ steps' = steps + 1
At(t, where) == pc[t].at = where
Goto(t, where) == pc' = [pc EXCEPT ![t].at = where]

\* the control calls of the threaded program; each caller has an asset of
\* its own to create and play
OwnAsset(t) == ((t - 1) % NumAssets) + 1
CallMenu ==
  { "create_sound", "delete_sound", "play_sound", "stop_all_sounds", "set_master_volume" }
CanCall(t, op) ==
  CASE op = "create_sound" -> CanCreate(OwnAsset(t))
    [] op = "play_sound" -> assets[OwnAsset(t)].alive
    [] op = "delete_sound" -> assets[OwnAsset(t)].alive
    [] OTHER -> TRUE
\* create_sound takes no lock (lines 567-583), the other calls of the menu
\* hold a WinAutoLock from their first line to their return
Unlocked_Calls == { "create_sound" }
\* the calls that insert into or erase from sound_data_pointers
RegistryCalls == { "create_sound", "delete_sound" }
\* caller t is inside a call that changes the registry while another caller is
RegistryRace(t) ==
  \E u \in Callers \ { t } : pc[u].at \in { "body", "nolock" } /\ pc[u].op \in RegistryCalls
BodyOf(t, op) ==
  CASE op = "create_sound" ->
         create_sound(OwnAsset(t), OUTPUT_SAMPLE_RATE, << 1, 1, 0 >>, TRUE)
    [] op = "play_sound" ->
         play_sound_internal(OwnAsset(t), ParamUnit, PitchUnit, 0, 0, VERY_BIG_NUMBER, FALSE, 0)
    [] op = "delete_sound" -> delete_sound(OwnAsset(t))
    [] op = "stop_all_sounds" -> stop_all_sounds
    [] OTHER -> set_master_volume(ParamUnit \div 2)

\* WinAutoLock lock(&sound_cs) of a control call
CallLock(t, op) ==
  /\ Running /\ At(t, "idle") /\ op \notin Unlocked_Calls
  /\ CanCall(t, op) /\ CanLock(t) /\ Started
  /\ sound_cs' = LockBy(t)
  /\ pc' = [pc EXCEPT ![t] = [ at |-> "body", op |-> op, arg |-> 0 ]]
  /\ UNCHANGED << programVars, sound_cs_manual_entered, audio, inBatch >>

\* the entry of a control call that takes no lock
CallEnter(t, op) ==
  /\ Running /\ At(t, "idle") /\ op \in Unlocked_Calls
  /\ CanCall(t, op) /\ Started
  /\ pc' = [pc EXCEPT ![t] = [ at |-> "nolock", op |-> op, arg |-> 0 ]]
  /\ UNCHANGED << programVars, sound_cs, sound_cs_manual_entered, audio, inBatch >>

\* the body of the call; two callers that change the one std::unordered_set
\* at the same time are a data race, which may also go wrong
CallBody(t) ==
  /\ pc[t].at \in { "body", "nolock" }
  /\ \/ BodyOf(t, pc[t].op)
     \/ /\ pc[t].op \in RegistryCalls /\ RegistryRace(t)
        /\ Running /\ Other /\ Trap("race", "registry")
  /\ pc' = [pc EXCEPT ![t] = IF pc[t].at = "body" THEN [@ EXCEPT !.at = "unlock"] ELSE Idle]
  /\ UNCHANGED << steps, sound_cs, sound_cs_manual_entered, audio, inBatch >>

\* ~WinAutoLock of a control call
CallUnlock(t) ==
  /\ Running /\ At(t, "unlock")
  /\ sound_cs' \in UnlockBy(t)
  /\ pc' = [pc EXCEPT ![t] = Idle]
  /\ UNCHANGED << programVars, steps, sound_cs_manual_entered, audio, inBatch >>

\* enter_sound_critical_section, line 1031; a caller enters a batch it is
\* not in
EnterCheck(t) ==
  /\ Running /\ At(t, "idle") /\ ~inBatch[t] /\ Started
  /\ IF sound_cs_manual_entered
       THEN inBatch' = [inBatch EXCEPT ![t] = TRUE] /\ UNCHANGED pc
       ELSE Goto(t, "enter_lock") /\ UNCHANGED inBatch
  /\ UNCHANGED << programVars, sound_cs, sound_cs_manual_entered, audio >>

\* line 1034
EnterLock(t) ==
  /\ Running /\ At(t, "enter_lock") /\ CanLock(t)
  /\ sound_cs' = LockBy(t)
  /\ Goto(t, "enter_set")
  /\ UNCHANGED << programVars, steps, sound_cs_manual_entered, audio, inBatch >>

\* line 1035
EnterSet(t) ==
  /\ Running /\ At(t, "enter_set")
  /\ sound_cs_manual_entered' = TRUE
  /\ pc' = [pc EXCEPT ![t] = Idle]
  /\ inBatch' = [inBatch EXCEPT ![t] = TRUE]
  /\ UNCHANGED << programVars, steps, sound_cs, audio >>

\* leave_sound_critical_section, line 1040; a caller leaves the batch it
\* is in
LeaveCheck(t) ==
  /\ Running /\ At(t, "idle") /\ inBatch[t] /\ Started
  /\ inBatch' = [inBatch EXCEPT ![t] = FALSE]
  /\ IF sound_cs_manual_entered THEN Goto(t, "leave_clear") ELSE UNCHANGED pc
  /\ UNCHANGED << programVars, sound_cs, sound_cs_manual_entered, audio >>

\* line 1042
LeaveClear(t) ==
  /\ Running /\ At(t, "leave_clear")
  /\ sound_cs_manual_entered' = FALSE
  /\ Goto(t, "leave_unlock")
  /\ UNCHANGED << programVars, steps, sound_cs, audio, inBatch >>

\* line 1043
LeaveUnlock(t) ==
  /\ Running /\ At(t, "leave_unlock")
  /\ sound_cs' \in UnlockBy(t)
  /\ pc' = [pc EXCEPT ![t] = Idle]
  /\ UNCHANGED << programVars, steps, sound_cs_manual_entered, audio, inBatch >>

\* fill_buffer_cb, line 466, called by the device that runs.  (Here the
\* device runs only with device_initialized set, and the output buffer is
\* not followed.)
CbLock(n) ==
  /\ Running /\ audio.at = "idle" /\ CanLock(AudioThread) /\ Started
  /\ device_running /\ device_initialized
  /\ sound_cs' = LockBy(AudioThread)
  /\ audio' = [ at |-> "mixing", samples |-> n ]
  /\ UNCHANGED << programVars, sound_cs_manual_entered, pc, inBatch >>

\* lines 473-483, one turn of the loop
CbChunk ==
  \E r \in { FillChunk([voices |-> playing_sounds, total |-> total_samples_played,
                        time |-> total_time_played,
                        out |-> ZeroBuffer(<< >>, Min(audio.samples, STEP)), done |-> 0,
                        logs |-> [i \in Slots |-> << >>], calls |-> << >>,
                        fault |-> "none"],
                       master_volume, audio.samples) } :
     /\ Running /\ audio.at = "mixing" /\ audio.samples > 0
     /\ Other
     /\ IF r.fault # "none" THEN Trap(r.fault, "voice") /\ UNCHANGED audio
        ELSE /\ playing_sounds' = r.voices
             /\ fade' = FadeAfter(r.voices, Min(audio.samples, STEP), "end")
             /\ total_samples_played' = r.total
             /\ total_time_played' = r.time
             /\ framesOut' = framesOut + Min(audio.samples, STEP)
             /\ audio' = [audio EXCEPT !.samples = @ - STEP]
             /\ UNCHANGED << assetVars, playVars, mixerVars, fault >>
     /\ UNCHANGED << steps, sound_cs, sound_cs_manual_entered, pc, inBatch >>

\* line 484, ~WinAutoLock
CbUnlock ==
  /\ Running /\ audio.at = "mixing" /\ audio.samples <= 0
  /\ sound_cs' \in UnlockBy(AudioThread)
  /\ audio' = AudioIdle
  /\ UNCHANGED << programVars, steps, sound_cs_manual_entered, pc, inBatch >>

NextCS ==
  \/ \E t \in Callers, op \in CallMenu : CallLock(t, op)
  \/ \E t \in Callers, op \in CallMenu : CallEnter(t, op)
  \/ \E t \in Callers : CallBody(t)
  \/ \E t \in Callers : CallUnlock(t)
  \/ \E t \in Callers : EnterCheck(t)
  \/ \E t \in Callers : EnterLock(t)
  \/ \E t \in Callers : EnterSet(t)
  \/ \E t \in Callers : LeaveCheck(t)
  \/ \E t \in Callers : LeaveClear(t)
  \/ \E t \in Callers : LeaveUnlock(t)
  \/ \E n \in CallbackSizes : CbLock(n)
  \/ CbChunk
  \/ CbUnlock

SpecCS == Init /\ [][NextCS]_vars

\* C8: the callback and the control calls exclude one another: while the
\* callback is between its lock and its unlock no control call is between
\* its own, and no two control calls are.
InCall(t) == pc[t].at \in { "body", "unlock" }
C8Claim ==
  /\ audio.at = "mixing" => \A t \in Callers : ~InCall(t)
  /\ \A t, u \in Callers : (InCall(t) /\ InCall(u)) => t = u

\* C9: while a caller is between its enter_sound_critical_section and its
\* leave_sound_critical_section the callback is not mixing.
C9Claim == \A t \in Callers : inBatch[t] => audio.at # "mixing"

\* C11: a caller that is inside a call which inserts into or erases from
\* the registry of buffers holds the mixer mutex, and no two callers are
\* inside such calls at the same time.
InRegistryCall(t) == pc[t].at \in { "body", "nolock" } /\ pc[t].op \in RegistryCalls
C11Claim ==
  /\ \A t \in Callers : InRegistryCall(t) => sound_cs.owner = t
  /\ \A t, u \in Callers : (InRegistryCall(t) /\ InRegistryCall(u)) => t = u

\* ------------------------------------------------------------- finalize
\* The callers create assets (which opens the device) and call finalize
\* while the device thread runs callbacks.  The callback is followed from
\* its test of device_initialized; ma_device_uninit returns when the
\* callback in flight has returned.
FinalCallbackSizes == { 4 }

\* miniaudio_data_callback, lines 507-513: the test of device_initialized
CbCheck(n) ==
  /\ Running /\ audio.at = "idle" /\ device_running /\ Started
  /\ audio' = IF device_initialized THEN [ at |-> "lock", samples |-> n ] ELSE AudioIdle
  /\ UNCHANGED << programVars, sound_cs, sound_cs_manual_entered, pc, inBatch >>

\* fill_buffer_cb, line 466: WinAutoLock lock(&sound_cs)
CbEnter ==
  /\ Running /\ audio.at = "lock" /\ CanLock(AudioThread)
  /\ sound_cs' = LockBy(AudioThread)
  /\ audio' = [audio EXCEPT !.at = "mixing"]
  /\ UNCHANGED << programVars, steps, sound_cs_manual_entered, pc, inBatch >>

\* finalize, line 561: device_initialized = false
FinClear(t) ==
  /\ Running /\ At(t, "idle") /\ Started
  /\ Other
  /\ device_initialized' = FALSE
  /\ pc' = [pc EXCEPT ![t] = [ at |-> "fin_lock", op |-> "finalize", arg |-> 0 ]]
  /\ UNCHANGED << assetVars, counterVars, playVars, voiceVars, master_volume,
                  device_running, fault >>
  /\ UNCHANGED << sound_cs, sound_cs_manual_entered, audio, inBatch >>

\* line 562: WinAutoLock lock(&sound_cs)
FinLock(t) ==
  /\ Running /\ At(t, "fin_lock") /\ CanLock(t)
  /\ sound_cs' = LockBy(t)
  /\ Goto(t, "fin_uninit")
  /\ UNCHANGED << programVars, steps, sound_cs_manual_entered, audio, inBatch >>

\* line 563: ma_device_uninit stops the device; it returns when no callback
\* is in flight
FinUninit(t) ==
  /\ Running /\ At(t, "fin_uninit") /\ audio.at = "idle"
  /\ Other
  /\ device_running' = FALSE
  /\ Goto(t, "fin_unlock")
  /\ UNCHANGED << assetVars, counterVars, playVars, voiceVars, master_volume,
                  device_initialized, fault >>
  /\ UNCHANGED << steps, sound_cs, sound_cs_manual_entered, audio, inBatch >>

\* line 564: ~WinAutoLock, and finalize returns
FinUnlock(t) ==
  /\ Running /\ At(t, "fin_unlock")
  /\ sound_cs' \in UnlockBy(t)
  /\ pc' = [pc EXCEPT ![t] = Idle]
  /\ UNCHANGED << programVars, steps, sound_cs_manual_entered, audio, inBatch >>

NextFinal ==
  \/ \E t \in Callers : CallEnter(t, "create_sound")
  \/ \E t \in Callers : CallBody(t)
  \/ \E t \in Callers : FinClear(t)
  \/ \E t \in Callers : FinLock(t)
  \/ \E t \in Callers : FinUninit(t)
  \/ \E t \in Callers : FinUnlock(t)
  \/ \E n \in FinalCallbackSizes : CbCheck(n)
  \/ CbEnter
  \/ CbChunk
  \/ CbUnlock

SpecFinal == Init /\ [][NextFinal]_vars

\* C37: finalize always returns: given that the device's uninit waits for
\* the callback in flight, no interleaving of finalize with a callback that
\* has passed its test of device_initialized leaves finalize holding the
\* mutex while the callback waits for that mutex.
C37Claim ==
  \A t \in Callers :
    ~(At(t, "fin_uninit") /\ sound_cs.owner = t /\ audio.at = "lock")

=============================================================================
